---- MODULE Spec2Model ----
(***************************************************************************)
(* Model of the affairon dispatch core: the per-type dependency registry   *)
(* (registry.py), the merge helpers (utils.py) and the synchronous         *)
(* dispatcher (dispatcher.py, base_dispatcher.py).                         *)
(***************************************************************************)
EXTENDS Integers, Sequences, FiniteSets, TLC

\* ------------------------------------------------------------------------
\* Bounds of the model
\* ------------------------------------------------------------------------

\* number of add / remove / unregister calls in one run
MaxOps == 3

\* ------------------------------------------------------------------------
\* Values
\* ------------------------------------------------------------------------

\* Dispatcher._sample_guardian: the root node of every per-type graph
Guardian == "guardian"

\* the callback values the application registers (identity by reference)
Callbacks == {"a", "b", "c"}

Node == Callbacks \cup {Guardian}

\* None, where the code accepts a callback or None
NoCallback == "None"

\* the affair types of the tests' hierarchy: ChildAffair derives from ParentAffair
Types == {"Child", "Parent"}

\* the argument lists of types a call passes (a list, in order)
TypeLists == {<<"Child">>, <<"Parent">>, <<"Child", "Parent">>, <<"Parent", "Child">>}

\* the affair the dispatchers emit when a callback raises
ErrorAffair == "CallbackErrorAffair"

\* when=None, and the predicate of the tests: lambda a: a.msg == "go"
NoWhen == "None"
MsgIsGo == "msg_is_go"

VARIABLES
    graphs,   \* BaseRegistry._graphs: affair type -> DiGraph, only the keys present
    whens,    \* the predicates given with when=: <<type, callback>> -> predicate
    nops,     \* number of registry calls made so far (bounds the run)
    only_adds, \* TRUE while every call made so far was an accepted register
    last,     \* the last call made: its arguments, its outcome, the registry before it
    run,      \* the emission in flight on the concurrent dispatcher, if any
    aware     \* the AffairAware instance of the run: its _affair_registrations

vars == <<graphs, whens, nops, only_adds, last, run, aware>>

\* ------------------------------------------------------------------------
\* networkx.DiGraph, as far as the registry uses it
\* ------------------------------------------------------------------------

\* nx.DiGraph(): no node; succ keeps each node's successors in insertion order
EmptyGraph == [nodes |-> {}, succ |-> [n \in Node |-> <<>>]]

Range(s) == {s[i] : i \in 1..Len(s)}

\* graph.add_node(n): idempotent
add_node(g, n) == [g EXCEPT !.nodes = @ \cup {n}]

\* graph.add_edge(u, v): an edge already present keeps its place
add_edge(g, u, v) ==
    [nodes |-> g.nodes \cup {u, v},
     succ  |-> [g.succ EXCEPT ![u] = IF v \in Range(@) THEN @ ELSE Append(@, v)]]

\* graph.remove_node(n): the node and every edge into or out of it
remove_node(g, n) ==
    [nodes |-> g.nodes \ {n},
     succ  |-> [m \in Node |-> IF m = n THEN <<>>
                               ELSE SelectSeq(g.succ[m], LAMBDA x : x # n)]]

\* the nodes reachable from the set S in one or more steps
RECURSIVE ReachFrom(_, _, _)
ReachFrom(g, S, k) ==
    LET step == S \cup UNION {Range(g.succ[n]) : n \in S}
    IN  IF k = 0 \/ step = S THEN S ELSE ReachFrom(g, step, k - 1)

Descendants(g, n) == ReachFrom(g, Range(g.succ[n]), Cardinality(Node))

\* a search for cycles that only sees an edge from a node to itself
simple_cycles_loops(g) == \E n \in g.nodes : n \in Range(g.succ[n])

\* list(nx.simple_cycles(graph)) is non-empty: some node reaches itself
simple_cycles(g) == \E n \in g.nodes : n \in Descendants(g, n)

\* the children of the nodes of a layer, in the order bfs_layers meets them
RECURSIVE ChildrenOf(_, _)
ChildrenOf(g, layer) ==
    IF layer = <<>> THEN <<>>
    ELSE g.succ[Head(layer)] \o ChildrenOf(g, Tail(layer))

\* keeps the first occurrence of every node not yet visited
RECURSIVE Unvisited(_, _)
Unvisited(s, visited) ==
    IF s = <<>> THEN <<>>
    ELSE IF Head(s) \in visited THEN Unvisited(Tail(s), visited)
    ELSE <<Head(s)>> \o Unvisited(Tail(s), visited \cup {Head(s)})

\* nx.bfs_layers(graph, sources): the layers from current_layer on
RECURSIVE bfs_layers(_, _, _)
bfs_layers(g, current_layer, visited) ==
    IF current_layer = <<>> THEN <<>>
    ELSE LET next_layer == Unvisited(ChildrenOf(g, current_layer), visited)
         IN  <<current_layer>> \o bfs_layers(g, next_layer, visited \cup Range(next_layer))

\* ------------------------------------------------------------------------
\* BaseRegistry
\* ------------------------------------------------------------------------

\* self._graphs[affair_type] of a defaultdict: a missing key is created empty
GraphOf(gs, t) == IF t \in DOMAIN gs THEN gs[t] ELSE EmptyGraph

SetGraph(gs, t, g) == [x \in DOMAIN gs \cup {t} |-> IF x = t THEN g ELSE gs[x]]

\* a deletion that leaves the graph of the type in place
DelGraph_Keep(gs, t) == gs

\* del self._graphs[t]
DelGraph(gs, t) == [x \in DOMAIN gs \ {t} |-> gs[x]]

\* edges of a multigraph: an edge already present is added once more
AddEdges_Parallel(g, deps, callback) ==
    [nodes |-> g.nodes \cup deps \cup {callback},
     succ  |-> [m \in Node |-> IF m \in deps
                               THEN Append(g.succ[m], callback) ELSE g.succ[m]]]

\* the edges of one registration: after or [guardian]
AddEdges(g, deps, callback) ==
    [nodes |-> g.nodes \cup deps \cup {callback},
     succ  |-> [m \in Node |-> IF m \in deps /\ callback \notin Range(g.succ[m])
                               THEN Append(g.succ[m], callback) ELSE g.succ[m]]]

\* the body of add's loop for one affair type
AddOne(gs, t, callback, after) ==
    LET g1 == add_node(GraphOf(gs, t), Guardian)
        g2 == AddEdges(add_node(g1, callback),
                       IF after = {} THEN {Guardian} ELSE after, callback)
    IN  IF \E dep \in after : dep \notin g1.nodes
        THEN [graphs |-> SetGraph(gs, t, g1), outcome |-> "ValueError"]
        ELSE IF simple_cycles(g2)
        THEN [graphs |-> SetGraph(gs, t, remove_node(g2, callback)),
              outcome |-> "CyclicDependencyError"]
        ELSE [graphs |-> SetGraph(gs, t, g2), outcome |-> "ok"]

\* BaseRegistry.add: the types in order, stopping at the first error
RECURSIVE add(_, _, _, _)
add(gs, affair_types, callback, after) ==
    IF affair_types = <<>> THEN [graphs |-> gs, outcome |-> "ok"]
    ELSE LET r == AddOne(gs, Head(affair_types), callback, after)
         IN  IF r.outcome # "ok" THEN r
             ELSE add(r.graphs, Tail(affair_types), callback, after)

\* the types of the list that add went through without raising
RECURSIVE Accepted(_, _, _, _)
Accepted(gs, affair_types, callback, after) ==
    IF affair_types = <<>> THEN {}
    ELSE LET r == AddOne(gs, Head(affair_types), callback, after)
         IN  IF r.outcome # "ok" THEN {}
             ELSE {Head(affair_types)}
                  \cup Accepted(r.graphs, Tail(affair_types), callback, after)

\* the callbacks registered on a type: the nodes of its graph but the guardian
Registered(gs, t) == IF t \in DOMAIN gs THEN gs[t].nodes \ {Guardian} ELSE {}

\* the predicates kept after a call: those of the pairings still registered,
\* and the one given with this registration for the types that took it
StoreWhen(ws, gs, accepted, callback, when) ==
    LET given == {<<t, callback>> : t \in accepted}
        pairs == {p \in DOMAIN ws \cup given : p[2] \in Registered(gs, p[1])}
        value(p) == IF p \in given THEN when ELSE ws[p]
    IN  [p \in {q \in pairs : value(q) # NoWhen} |-> value(p)]

\* remove's search of every graph for the callback
RemoveEverywhere(gs, callback) ==
    LET cleaned == [t \in DOMAIN gs |-> IF callback \in gs[t].nodes
                                        THEN remove_node(gs[t], callback) ELSE gs[t]]
        keep == {t \in DOMAIN gs : cleaned[t].nodes # {}}
    IN  [t \in keep |-> cleaned[t]]

\* a remove whose loop ignores which types were named
RemoveFromTypes_AnyType(gs, affair_types, callback) ==
    IF callback = NoCallback
    THEN [x \in DOMAIN gs \ Range(affair_types) |-> gs[x]]
    ELSE RemoveEverywhere(gs, callback)

\* remove's loop over the given types
RECURSIVE RemoveFromTypes(_, _, _)
RemoveFromTypes(gs, affair_types, callback) ==
    IF affair_types = <<>> THEN gs
    ELSE LET t == Head(affair_types)
             g == remove_node(gs[t], callback)
             gs1 == IF t \notin DOMAIN gs THEN gs
                    ELSE IF callback = NoCallback THEN DelGraph(gs, t)
                    ELSE IF callback \notin gs[t].nodes THEN gs
                    ELSE IF g.nodes = {} THEN DelGraph(gs, t)
                    ELSE SetGraph(gs, t, g)
         IN  RemoveFromTypes(gs1, Tail(affair_types), callback)

\* BaseRegistry.remove; affair_types = <<>> stands for None
remove(gs, affair_types, callback) ==
    IF affair_types = <<>> /\ callback = NoCallback
    THEN [graphs |-> gs, outcome |-> "ValueError"]
    ELSE IF affair_types # <<>>
    THEN [graphs |-> RemoveFromTypes(gs, affair_types, callback), outcome |-> "ok"]
    ELSE [graphs |-> RemoveEverywhere(gs, callback), outcome |-> "ok"]

\* BaseRegistry.exec_order
exec_order(gs, t) ==
    IF t \notin DOMAIN gs THEN <<>>
    ELSE Tail(bfs_layers(gs[t], <<Guardian>>, {Guardian}))

\* BaseDispatcher.unregister(*affair_types, callback=...)
unregister(gs, affair_types, callback) ==
    IF affair_types = <<>> /\ callback = NoCallback
    THEN [graphs |-> gs, outcome |-> "ValueError"]
    ELSE remove(gs, affair_types, callback)

\* ------------------------------------------------------------------------
\* Affairs and callbacks
\* ------------------------------------------------------------------------

\* type(affair).__mro__ restricted to the affair types, child first (the
\* bases every affair shares carry no registration here)
Mro(t) == IF t = "Child" THEN <<"Child", "Parent">> ELSE <<t>>

\* a resolution that walks the ancestors whatever emit_up says
resolve_affair_types_up(affair) == Mro(affair.type)

\* BaseDispatcher._resolve_affair_types
resolve_affair_types(affair) ==
    IF ~affair.emit_up THEN <<affair.type>> ELSE Mro(affair.type)

\* the registry's should_fire(callback, affair_type, affair)
should_fire(ws, callback, t, affair) ==
    \/ <<t, callback>> \notin DOMAIN ws
    \/ (ws[<<t, callback>>] = MsgIsGo /\ affair.msg = "go")

\* values a callback puts in its mapping: tagged, the tag first
Str(x) == [t |-> "str", v |-> x]
Num(x) == [t |-> "int", v |-> x]
Bool(x) == [t |-> "bool", v |-> x]

\* what a callback hands back: None, a mapping, or something else
RetNone == [kind |-> "none"]
RetDict(m) == [kind |-> "dict", map |-> m]
RetOther == [kind |-> "other"]
Raised == [kind |-> "raise"]

\* what the callbacks of the model do when invoked for the n-th time
Invoke(behaviour, callback, n) ==
    CASE behaviour = "none"   -> RetNone
      [] behaviour = "key_k"  -> RetDict([x \in {"k"} |-> Str(callback)])
      [] behaviour = "own"    -> RetDict([x \in {callback} |-> Str(callback)])
      [] behaviour = "other"  -> RetOther
      [] behaviour = "raise"  -> Raised
      [] behaviour = "flaky"  -> IF n = 1 THEN Raised
                                 ELSE RetDict([x \in {"k"} |-> Str(callback)])
      [] behaviour = "k_then_raise" -> IF n = 1
                                       THEN RetDict([x \in {"k"} |-> Str(callback)])
                                       ELSE Raised
      [] behaviour = "await_k"  -> RetDict([x \in {"k"} |-> Str(callback)])
      [] behaviour = "retry1"     -> RetDict([x \in {"retry"} |-> Num(1)])
      [] behaviour = "retry_neg"  -> RetDict([x \in {"retry"} |-> Num(-1)])
      [] behaviour = "retry1_silent" ->
             RetDict([x \in {"retry", "silent"} |->
                         IF x = "retry" THEN Num(1) ELSE Bool(TRUE)])
      [] behaviour = "bad_silent" ->
             RetDict([x \in {"retry", "silent"} |->
                         IF x = "retry" THEN Str("not_a_number") ELSE Bool(TRUE)])
      [] behaviour = "await_flaky" -> IF n = 1 THEN Raised
                                      ELSE RetDict([x \in {"k"} |-> Str(callback)])
      [] behaviour = "retry_str"  -> RetDict([x \in {"retry"} |-> Str("2")])
      [] behaviour = "retry_bad"  -> RetDict([x \in {"retry"} |-> Str("not_a_number")])
      [] behaviour = "deadletter" -> RetDict([x \in {"deadletter"} |-> Bool(TRUE)])
      [] behaviour = "silent"     -> RetDict([x \in {"silent"} |-> Bool(TRUE)])
      [] behaviour = "flaky_other" -> IF n = 1 THEN Raised ELSE RetOther

\* utils.callable_name
callable_name(cb) == cb

\* ------------------------------------------------------------------------
\* utils.merge_dict
\* ------------------------------------------------------------------------

\* the keys of the model, in the order a source mapping is walked
KeyOrder == <<"k", "a", "b", "c", "retry", "deadletter", "silent">>

Put(m, key, value) == [x \in DOMAIN m \cup {key} |-> IF x = key THEN value ELSE m[x]]

\* a wrapping that forgets the name of the source under dict_merge
wrap_value_unnamed(strategy, value, source_name) ==
    CASE strategy = "list_merge" -> [t |-> "list", v |-> <<value>>]
      [] strategy = "dict_merge" -> [t |-> "dict", v |-> [x \in {""} |-> value]]
      [] OTHER -> value

\* utils._wrap_value
wrap_value(strategy, value, source_name) ==
    CASE strategy = "list_merge" -> [t |-> "list", v |-> <<value>>]
      [] strategy = "dict_merge" -> [t |-> "dict", v |-> [x \in {source_name} |-> value]]
      [] OTHER -> value

\* a conflict resolution that lets the new value win under every strategy
\* that keeps a single value
resolve_conflict_newest(strategy, existing, new_value, source_name) ==
    CASE strategy = "keep" -> new_value
      [] strategy = "override" -> new_value
      [] strategy = "list_merge" -> [t |-> "list", v |-> Append(existing.v, new_value)]
      [] strategy = "dict_merge" -> [t |-> "dict", v |-> Put(existing.v, source_name, new_value)]

\* utils._resolve_conflict, for the strategies that do not raise
resolve_conflict(strategy, existing, new_value, source_name) ==
    CASE strategy = "keep" -> existing
      [] strategy = "override" -> new_value
      [] strategy = "list_merge" -> [t |-> "list", v |-> Append(existing.v, new_value)]
      [] strategy = "dict_merge" -> [t |-> "dict", v |-> Put(existing.v, source_name, new_value)]

\* merge_dict's loop over the source's keys
RECURSIVE MergeKeys(_, _, _, _, _)
MergeKeys(target, source, keys, strategy, source_name) ==
    IF keys = <<>> THEN [ok |-> TRUE, target |-> target]
    ELSE LET key == Head(keys)
         IN  IF key \notin DOMAIN source
             THEN MergeKeys(target, source, Tail(keys), strategy, source_name)
             ELSE IF key \notin DOMAIN target
             THEN MergeKeys(Put(target, key, wrap_value(strategy, source[key], source_name)),
                            source, Tail(keys), strategy, source_name)
             ELSE IF strategy = "raise"
             THEN [ok |-> FALSE, key |-> key]
             ELSE MergeKeys(Put(target, key,
                                resolve_conflict(strategy, target[key], source[key],
                                                 source_name)),
                            source, Tail(keys), strategy, source_name)

\* a merge that keeps the existing value whatever the strategy
merge_dict_keep(target, source, strategy, source_name) ==
    MergeKeys(target, source, KeyOrder, "keep", source_name)

\* a merge that starts from an empty mapping instead of the target
merge_dict_fresh(target, source, strategy, source_name) ==
    MergeKeys(<< >>, source, KeyOrder, strategy, source_name)

\* utils.merge_dict(target, source, strategy=..., source_name=...)
merge_dict(target, source, strategy, source_name) ==
    MergeKeys(target, source, KeyOrder, strategy, source_name)

\* ------------------------------------------------------------------------
\* Dispatcher (synchronous)
\* ------------------------------------------------------------------------

\* nested emits beyond this depth end in Python's RecursionError
MaxDepth == 2

\* how often unregister() is called on one instance
MaxTeardowns == 2

RECURSIVE Flat(_)
Flat(layers) == IF layers = <<>> THEN <<>> ELSE Head(layers) \o Flat(Tail(layers))

\* the (type, callback) pairs emit's three nested loops walk, in order
RECURSIVE Schedule(_, _)
Schedule(gs, affair_types) ==
    IF affair_types = <<>> THEN <<>>
    ELSE LET t == Head(affair_types)
             cbs == Flat(exec_order(gs, t))
         IN  [i \in 1..Len(cbs) |-> <<t, cbs[i]>>] \o Schedule(gs, Tail(affair_types))

\* how often the trace shows the callback invoked
Calls(trace, cb) ==
    Cardinality({i \in 1..Len(trace) : trace[i].cb = cb /\ trace[i].step = "call"})

\* one invocation, logged: which callback, for which type, in which emit
Invocation(beh, cb, t, trace, depth) ==
    LET r == Invoke(beh[cb], cb, Calls(trace, cb) + 1)
    IN  [ret |-> r,
         trace |-> Append(trace, [cb |-> cb, type |-> t, depth |-> depth,
                                 step |-> "call", ret |-> r])]

\* bool(value)
Truthy(value) ==
    CASE value.t = "bool" -> value.v
      [] value.t = "int" -> value.v # 0
      [] value.t = "str" -> value.v # ""
      [] OTHER -> TRUE

\* a reading of the policy that never sees the silent flag
read_error_policy_deaf(policy) ==
    LET raw == IF "retry" \in DOMAIN policy THEN policy["retry"] ELSE Num(0)
    IN  [ok |-> raw.t \in {"int", "bool"} \/ (raw.t = "str" /\ raw.v = "2"),
         retry |-> IF raw.t = "int" THEN raw.v
                   ELSE IF raw.t = "bool" THEN (IF raw.v THEN 1 ELSE 0)
                   ELSE 2,
         deadletter |-> "deadletter" \in DOMAIN policy /\ Truthy(policy["deadletter"]),
         silent |-> FALSE]

\* a reading of the policy that takes a retry it cannot convert for 0
read_error_policy_lenient(policy) ==
    LET raw == IF "retry" \in DOMAIN policy THEN policy["retry"] ELSE Num(0)
        flag(key) == key \in DOMAIN policy /\ Truthy(policy[key])
    IN  [ok |-> TRUE,
         retry |-> IF raw.t = "int" THEN raw.v
                   ELSE IF raw.t = "bool" THEN (IF raw.v THEN 1 ELSE 0)
                   ELSE IF raw.t = "str" /\ raw.v = "2" THEN 2
                   ELSE 0,
         deadletter |-> flag("deadletter"),
         silent |-> flag("silent")]

\* BaseDispatcher._read_error_policy: int(policy.get("retry", 0)) and the flags
read_error_policy(policy) ==
    LET raw == IF "retry" \in DOMAIN policy THEN policy["retry"] ELSE Num(0)
        coercible == raw.t \in {"int", "bool"} \/ (raw.t = "str" /\ raw.v = "2")
        flag(key) == key \in DOMAIN policy /\ Truthy(policy[key])
    IN  [ok |-> coercible,
         retry |-> IF raw.t = "int" THEN raw.v
                   ELSE IF raw.t = "bool" THEN (IF raw.v THEN 1 ELSE 0)
                   ELSE 2,
         deadletter |-> flag("deadletter"),
         silent |-> flag("silent")]

\* a retry loop that makes one attempt more than the policy allows
RECURSIVE RetryLoop_OneMore(_, _, _, _, _, _)
RetryLoop_OneMore(beh, cb, t, trace, depth, retry) ==
    IF retry < 0 THEN [done |-> FALSE, trace |-> trace]
    ELSE LET i == Invocation(beh, cb, t, trace, depth)
         IN  IF i.ret.kind # "raise"
             THEN [done |-> TRUE, ret |-> i.ret, trace |-> i.trace]
             ELSE RetryLoop_OneMore(beh, cb, t, i.trace, depth, retry - 1)

\* the retry loop of _handle_callback_error
RECURSIVE RetryLoop(_, _, _, _, _, _)
RetryLoop(beh, cb, t, trace, depth, retry) ==
    IF retry <= 0 THEN [done |-> FALSE, trace |-> trace]
    ELSE LET i == Invocation(beh, cb, t, trace, depth)
         IN  IF i.ret.kind # "raise"
             THEN [done |-> TRUE, ret |-> i.ret, trace |-> i.trace]
             ELSE RetryLoop(beh, cb, t, i.trace, depth, retry - 1)

RECURSIVE emit(_, _, _, _, _, _)

\* the exception an invocation raised: whose it is and which invocation of
\* that callback in the emission it was
Exception(trace, cb) == [error |-> "CallbackError", cb |-> cb, n |-> Calls(trace, cb)]

\* str(exception): the text the invocation raised its exception with
Message(exception) == <<exception.cb, exception.n>>

\* an error affair that carries the merge strategy of the affair dispatched
CallbackErrorAffair_Inherit(affair, cb, exception) ==
    [type |-> ErrorAffair, emit_up |-> FALSE,
     merge_strategy |-> affair.merge_strategy, msg |-> "",
     listener_name |-> callable_name(cb), original_affair_type |-> affair.type,
     error_message |-> Message(exception), error_type |-> exception.error]

\* an error affair that names the type the callback was registered for last
\* in the MRO instead of the type of the affair dispatched
CallbackErrorAffair_Root(affair, cb, exception) ==
    [type |-> ErrorAffair, emit_up |-> FALSE, merge_strategy |-> "raise", msg |-> "",
     listener_name |-> callable_name(cb),
     original_affair_type |-> Mro(affair.type)[Len(Mro(affair.type))],
     error_message |-> Message(exception), error_type |-> exception.error]

\* CallbackErrorAffair(listener_name=..., original_affair_type=..., ...): the
\* other fields keep their defaults
CallbackErrorAffair(affair, cb, exception) ==
    [type |-> ErrorAffair, emit_up |-> FALSE, merge_strategy |-> "raise", msg |-> "",
     listener_name |-> callable_name(cb), original_affair_type |-> affair.type,
     error_message |-> Message(exception), error_type |-> exception.error]

\* self.emit(error_affair) is called for a callback that raised while it was
\* invoked for the type in an emit of the given depth: the trace shows it
Emitted(trace, error_affair, cb, t, depth) ==
    Append(trace, [cb |-> cb, type |-> t, depth |-> depth + 1, step |-> "emit",
                   ret |-> [kind |-> "event", affair |-> error_affair]])

\* a recovery whose swallowing of a failure ends the emission as well
handle_callback_error_final(gs, ws, beh, affair, cb, t, trace, depth) ==
    LET error_affair == CallbackErrorAffair(affair, cb, Exception(trace, cb))
        policy == emit(gs, ws, beh, error_affair,
                       Emitted(trace, error_affair, cb, t, depth), depth + 1)
        p == read_error_policy(policy.result)
        again == RetryLoop(beh, cb, t, policy.trace, depth, p.retry)
    IN  IF policy.outcome # "ok"
        THEN [outcome |-> policy.outcome, errors |-> policy.errors,
              trace |-> policy.trace]
        ELSE IF ~p.ok
        THEN [outcome |-> "TypeError", errors |-> <<>>, trace |-> policy.trace]
        ELSE IF again.done
        THEN [outcome |-> "ok", ret |-> again.ret, trace |-> again.trace]
        ELSE IF p.deadletter \/ p.silent
        THEN [outcome |-> "Swallowed", errors |-> <<>>, trace |-> again.trace]
        ELSE [outcome |-> "CallbackError", errors |-> <<Exception(trace, cb)>>,
              trace |-> again.trace]

\* Dispatcher._handle_callback_error; the exception is the one the invocation
\* that ends the trace raised
handle_callback_error(gs, ws, beh, affair, cb, t, trace, depth) ==
    LET exception == Exception(trace, cb)
        error_affair == CallbackErrorAffair(affair, cb, exception)
        policy == emit(gs, ws, beh, error_affair,
                       Emitted(trace, error_affair, cb, t, depth), depth + 1)
        p == read_error_policy(policy.result)
        again == RetryLoop(beh, cb, t, policy.trace, depth, p.retry)
    IN  IF policy.outcome # "ok"
        THEN [outcome |-> policy.outcome, errors |-> policy.errors,
              trace |-> policy.trace]
        ELSE IF ~p.ok
        THEN [outcome |-> "TypeError", errors |-> <<>>, trace |-> policy.trace]
        ELSE IF again.done
        THEN [outcome |-> "ok", ret |-> again.ret, trace |-> again.trace]
        ELSE IF p.deadletter \/ p.silent
        THEN [outcome |-> "ok", ret |-> RetNone, trace |-> again.trace]
        ELSE [outcome |-> "CallbackError", errors |-> <<exception>>,
              trace |-> again.trace]

\* loops that run the callbacks left before the error of a callback is raised
RECURSIVE RunCallbacks_Late(_, _, _, _, _, _, _, _)
RunCallbacks_Late(gs, ws, beh, affair, sched, merged_result, trace, depth) ==
    IF sched = <<>>
    THEN [outcome |-> "ok", result |-> merged_result, trace |-> trace,
          errors |-> <<>>]
    ELSE LET t == Head(sched)[1]
             cb == Head(sched)[2]
             i == Invocation(beh, cb, t, trace, depth)
             r == IF i.ret.kind # "raise"
                  THEN [outcome |-> "ok", ret |-> i.ret, trace |-> i.trace]
                  ELSE handle_callback_error(gs, ws, beh, affair, cb, t, i.trace, depth)
             m == merge_dict(merged_result, r.ret.map, "raise", "")
             late == RunCallbacks_Late(gs, ws, beh, affair, Tail(sched), << >>,
                                       r.trace, depth)
             failed(outcome, errors) ==
                 [outcome |-> outcome, result |-> << >>, trace |-> late.trace,
                  errors |-> errors]
         IN  IF ~should_fire(ws, cb, t, affair)
             THEN RunCallbacks_Late(gs, ws, beh, affair, Tail(sched), merged_result,
                                    trace, depth)
             ELSE IF r.outcome # "ok" THEN failed(r.outcome, r.errors)
             ELSE IF r.ret.kind = "none"
             THEN RunCallbacks_Late(gs, ws, beh, affair, Tail(sched), merged_result,
                                    r.trace, depth)
             ELSE IF r.ret.kind # "dict" THEN failed("TypeError", <<>>)
             ELSE IF ~m.ok THEN failed("KeyConflictError", <<>>)
             ELSE RunCallbacks_Late(gs, ws, beh, affair, Tail(sched), m.target,
                                    r.trace, depth)

\* the body of emit's loops, from the given place of the schedule on
RECURSIVE RunCallbacks(_, _, _, _, _, _, _, _)
RunCallbacks(gs, ws, beh, affair, sched, merged_result, trace, depth) ==
    IF sched = <<>>
    THEN [outcome |-> "ok", result |-> merged_result, trace |-> trace,
          errors |-> <<>>]
    ELSE LET t == Head(sched)[1]
             cb == Head(sched)[2]
             i == Invocation(beh, cb, t, trace, depth)
             r == IF i.ret.kind # "raise"
                  THEN [outcome |-> "ok", ret |-> i.ret, trace |-> i.trace]
                  ELSE handle_callback_error(gs, ws, beh, affair, cb, t, i.trace, depth)
             m == merge_dict(merged_result, r.ret.map, "raise", "")
         IN  IF ~should_fire(ws, cb, t, affair)
             THEN RunCallbacks(gs, ws, beh, affair, Tail(sched), merged_result, trace, depth)
             ELSE IF r.outcome # "ok"
             THEN [outcome |-> r.outcome, result |-> << >>, trace |-> r.trace,
                   errors |-> r.errors]
             ELSE IF r.ret.kind = "none"
             THEN RunCallbacks(gs, ws, beh, affair, Tail(sched), merged_result, r.trace, depth)
             ELSE IF r.ret.kind # "dict"
             THEN [outcome |-> "TypeError", result |-> << >>, trace |-> r.trace,
                   errors |-> <<>>]
             ELSE IF ~m.ok
             THEN [outcome |-> "KeyConflictError", result |-> << >>,
                   trace |-> r.trace, errors |-> <<>>]
             ELSE RunCallbacks(gs, ws, beh, affair, Tail(sched), m.target, r.trace, depth)

\* Dispatcher.emit
emit(gs, ws, beh, affair, trace, depth) ==
    IF depth > MaxDepth
    THEN [outcome |-> "RecursionError", result |-> << >>, trace |-> trace,
          errors |-> <<>>]
    ELSE RunCallbacks(gs, ws, beh, affair,
                      Schedule(gs, resolve_affair_types(affair)), << >>, trace, depth)

\* ------------------------------------------------------------------------
\* AsyncDispatcher
\* ------------------------------------------------------------------------

\* behaviours whose callback awaits something before it returns or raises
Suspends(behaviour) == behaviour \in {"await_k", "await_flaky"}

\* the layers emit's loops over affair_types and layers walk, with their type
RECURSIVE LayerSchedule(_, _)
LayerSchedule(gs, affair_types) ==
    IF affair_types = <<>> THEN <<>>
    ELSE LET t == Head(affair_types)
             layers == exec_order(gs, t)
         IN  [i \in 1..Len(layers) |-> [type |-> t, layer |-> layers[i]]]
                 \o LayerSchedule(gs, Tail(affair_types))

\* filtered_cbs with their tasks: group.create_task for every callback of the
\* layer that should_fire lets through, in the layer's order
create_tasks(ws, l, affair) ==
    LET filtered_cbs == SelectSeq(l.layer,
                                  LAMBDA cb : should_fire(ws, cb, l.type, affair))
    IN  [i \in 1..Len(filtered_cbs) |->
            [cb |-> filtered_cbs[i], type |-> l.type, st |-> "new", ret |-> RetNone,
             exc |-> << >>, retry |-> 0, swallow |-> FALSE]]

\* a TaskGroup without tasks is left without suspending: the layers from the
\* first one that has a task on
RECURSIVE SkipIdle(_, _, _)
SkipIdle(ws, affair, layers) ==
    IF layers = <<>> THEN <<>>
    ELSE IF create_tasks(ws, Head(layers), affair) = <<>>
    THEN SkipIdle(ws, affair, Tail(layers))
    ELSE layers

\* a merge loop that walks the tasks of the layer from the last one created
RECURSIVE MergeTasks_Reversed(_, _, _)
MergeTasks_Reversed(tasks, merged_result, strategy) ==
    IF tasks = <<>> THEN [outcome |-> "ok", result |-> merged_result]
    ELSE LET task == tasks[Len(tasks)]
             rest == SubSeq(tasks, 1, Len(tasks) - 1)
             m == merge_dict(merged_result, task.ret.map, strategy,
                             callable_name(task.cb))
         IN  IF task.ret.kind = "none"
             THEN MergeTasks_Reversed(rest, merged_result, strategy)
             ELSE IF task.ret.kind # "dict"
             THEN [outcome |-> "TypeError", result |-> << >>]
             ELSE IF ~m.ok
             THEN [outcome |-> "KeyConflictError", result |-> << >>]
             ELSE MergeTasks_Reversed(rest, m.target, strategy)

\* the loop over zip(filtered_cbs, tasks) after the TaskGroup is left
RECURSIVE MergeTasks(_, _, _)
MergeTasks(tasks, merged_result, strategy) ==
    IF tasks = <<>> THEN [outcome |-> "ok", result |-> merged_result]
    ELSE LET task == Head(tasks)
             m == merge_dict(merged_result, task.ret.map, strategy,
                             callable_name(task.cb))
         IN  IF task.ret.kind = "none"
             THEN MergeTasks(Tail(tasks), merged_result, strategy)
             ELSE IF task.ret.kind # "dict"
             THEN [outcome |-> "TypeError", result |-> << >>]
             ELSE IF ~m.ok
             THEN [outcome |-> "KeyConflictError", result |-> << >>]
             ELSE MergeTasks(Tail(tasks), m.target, strategy)

\* a TaskGroup that takes a task for over as soon as it has started
Finished_Started(task) == task.st # "new"

\* a task is over: it returned, it raised, or it was cancelled
Finished(task) == task.st \in {"done", "failed", "cancelled"}

\* the tasks that have run their first step: create_task queues the first
\* steps in creation order before emit suspends
Started(tasks) == \A j \in DOMAIN tasks : tasks[j].st # "new"

\* ------------------------------------------------------------------------
\* The state machine
\* ------------------------------------------------------------------------

Init ==
    /\ graphs = << >>
    /\ whens = << >>
    /\ nops = 0
    /\ only_adds = TRUE
    /\ last = [op |-> "setup"]
    /\ run = [phase |-> "idle"]
    /\ aware = [state |-> "none"]

\* no emission has been recorded: an emit leaves the registry as it is, so a
\* run is the registry calls that build the registry, then the emission
Building == last.op # "emit" /\ run.phase = "idle"

\* register(types, callback, after=..., when=...) with the after list drawn
\* from deps; a bounded run counts its calls and records the last one with
\* the registry before it
RegisterAfter(type_lists, callbacks, deps, predicates, bounded) ==
    /\ Building
    /\ bounded => nops < MaxOps
    /\ \E ts \in type_lists, cb \in callbacks, after \in SUBSET deps,
          when \in predicates :
         LET r == add(graphs, ts, cb, after)
         IN  /\ graphs' = r.graphs
             /\ whens' = StoreWhen(whens, r.graphs,
                                   Accepted(graphs, ts, cb, after), cb, when)
             /\ only_adds' = (bounded /\ only_adds /\ r.outcome = "ok")
             /\ last' = IF bounded
                         THEN [op |-> "register", types |-> ts, callback |-> cb,
                               after |-> after, outcome |-> r.outcome,
                               before |-> graphs]
                         ELSE [op |-> "setup"]
    /\ nops' = IF bounded THEN nops + 1 ELSE nops
    /\ UNCHANGED <<run, aware>>

\* the same with the after lists drawn from the callbacks registered
Register(type_lists, callbacks, predicates, bounded) ==
    RegisterAfter(type_lists, callbacks, callbacks, predicates, bounded)

\* unregister(*types, callback=...)
Unregister(type_lists, callbacks, bounded) ==
    /\ Building
    /\ bounded => nops < MaxOps
    /\ \E ts \in type_lists \cup {<<>>}, cb \in callbacks \cup {NoCallback} :
         LET r == unregister(graphs, ts, cb)
         IN  /\ graphs' = r.graphs
             /\ whens' = StoreWhen(whens, r.graphs, {}, cb, NoWhen)
             /\ last' = IF bounded
                         THEN [op |-> "unregister", types |-> ts, callback |-> cb,
                               outcome |-> r.outcome, before |-> graphs]
                         ELSE [op |-> "setup"]
    /\ only_adds' = FALSE
    /\ nops' = IF bounded THEN nops + 1 ELSE nops
    /\ UNCHANGED <<run, aware>>

\* the registry alone: every list of types, every callback, no predicate
Next ==
    \/ Register(TypeLists, Callbacks, {NoWhen}, TRUE)
    \/ Unregister(TypeLists, Callbacks, TRUE)

Spec == Init /\ [][Next]_vars

\* the affairs an application emits: ChildAffair instances
Affairs(strategies, msgs) ==
    [type : {"Child"}, emit_up : BOOLEAN, merge_strategy : strategies, msg : msgs]

\* dispatcher.emit(affair) on the synchronous dispatcher, with callbacks that
\* behave as beh says
EmitWith(affairs, behs) ==
    /\ Building
    /\ \E affair \in affairs, beh \in behs :
         LET r == emit(graphs, whens, beh, affair, <<>>, 0)
         IN  last' = [op |-> "emit", engine |-> "sync", affair |-> affair,
                      outcome |-> r.outcome, result |-> r.result, trace |-> r.trace,
                      errors |-> r.errors]
    /\ UNCHANGED <<graphs, whens, nops, only_adds, run, aware>>

\* the same, for the affairs of the given strategies and messages and every
\* assignment of the behaviours to the callbacks
Emit(strategies, msgs, callbacks, behaviours) ==
    EmitWith(Affairs(strategies, msgs), [callbacks -> behaviours])

\* the callbacks and behaviours of the emissions explored
EmitCallbacks == {"a", "b"}
EmitBehaviours == {"none", "key_k", "own", "raise"}

\* registrations with predicates, and synchronous emissions
NextSync ==
    \/ Register(TypeLists, EmitCallbacks, {NoWhen, MsgIsGo}, FALSE)
    \/ Unregister(TypeLists, EmitCallbacks, FALSE)
    \/ Emit({"raise"}, {"go", "stop"}, EmitCallbacks, EmitBehaviours)

SpecSync == Init /\ [][NextSync]_vars

\* the concurrent emit returns or raises: the emission is over and recorded
Finish(affair, outcome, result, trace, errors) ==
    /\ run' = [phase |-> "idle"]
    /\ last' = [op |-> "emit", engine |-> "async", affair |-> affair,
                outcome |-> outcome, result |-> result, trace |-> trace,
                errors |-> errors]

\* the concurrent emit enters the next layer that has a task and suspends at
\* the end of its TaskGroup block, or returns merged_result
EnterLayer(affair, beh, layers, merged_result, trace) ==
    LET rest == SkipIdle(whens, affair, layers)
    IN  IF rest = <<>>
        THEN Finish(affair, "ok", merged_result, trace, <<>>)
        ELSE /\ run' = [phase |-> "layer", affair |-> affair, beh |-> beh,
                        layers |-> Tail(rest),
                        tasks |-> create_tasks(whens, Head(rest), affair),
                        merged_result |-> merged_result, trace |-> trace,
                        errors |-> <<>>]
             /\ UNCHANGED last

\* await dispatcher.emit(affair) on the concurrent dispatcher: up to the first
\* suspension
AsyncEmitWith(affairs, behs) ==
    /\ Building
    /\ \E affair \in affairs, beh \in behs :
         EnterLayer(affair, beh,
                    LayerSchedule(graphs, resolve_affair_types(affair)), << >>, <<>>)
    /\ UNCHANGED <<graphs, whens, nops, only_adds, aware>>

\* the same, for the affairs of the given strategies and messages and every
\* assignment of the behaviours to the callbacks
AsyncEmit(strategies, msgs, callbacks, behaviours) ==
    AsyncEmitWith(Affairs(strategies, msgs), [callbacks -> behaviours])

\* the error a task ends with when the policy cannot be had or read
PolicyError(kind, cb) == [error |-> kind, cb |-> cb, n |-> 0]

\* the callbacks of a layer of an emit of the CallbackErrorAffair, each run to
\* its end in the layer's order (the handlers of the model return without
\* awaiting)
RECURSIVE InvokeAll(_, _, _, _)
InvokeAll(beh, tasks, trace, depth) ==
    IF tasks = <<>> THEN [tasks |-> <<>>, trace |-> trace]
    ELSE LET task == Head(tasks)
             i == Invocation(beh, task.cb, task.type, trace, depth)
             rest == InvokeAll(beh, Tail(tasks), i.trace, depth)
         IN  [tasks |-> <<[task EXCEPT !.ret = i.ret,
                                       !.st = IF i.ret.kind = "raise"
                                              THEN "failed" ELSE "done"]>>
                            \o rest.tasks,
              trace |-> rest.trace]

\* policy = await self.emit(error_affair), layer after layer; a handler that
\* raises would start the recovery of its own failure, which none of the
\* handlers of the model does
RECURSIVE PolicyLayers(_, _, _, _, _, _)
PolicyLayers(ws, beh, error_affair, layers, merged_result, trace) ==
    IF layers = <<>>
    THEN [outcome |-> "ok", result |-> merged_result, trace |-> trace]
    ELSE LET ran == InvokeAll(beh, create_tasks(ws, Head(layers), error_affair),
                              trace, 1)
             m == MergeTasks(ran.tasks, merged_result, error_affair.merge_strategy)
         IN  IF \E j \in DOMAIN ran.tasks : ran.tasks[j].st = "failed"
             THEN [outcome |-> "Diverges", result |-> << >>, trace |-> ran.trace]
             ELSE IF m.outcome # "ok"
             THEN [outcome |-> m.outcome, result |-> << >>, trace |-> ran.trace]
             ELSE PolicyLayers(ws, beh, error_affair, Tail(layers), m.result,
                               ran.trace)

\* the retry loop of AsyncDispatcher._handle_callback_error and what follows
\* it, up to the next await of the callback or to the end of the task
RECURSIVE AsyncRetryLoop(_, _, _, _, _)
AsyncRetryLoop(beh, task, trace, retry, swallow) ==
    IF retry <= 0
    THEN [task |-> IF swallow THEN [task EXCEPT !.st = "done", !.ret = RetNone]
                   ELSE [task EXCEPT !.st = "failed", !.ret = Raised],
          trace |-> trace]
    ELSE IF Suspends(beh[task.cb])
    THEN [task |-> [task EXCEPT !.st = "retrying", !.retry = retry - 1,
                                !.swallow = swallow],
          trace |-> Append(trace, [cb |-> task.cb, type |-> task.type, depth |-> 0,
                                   step |-> "call", ret |-> [kind |-> "await"]])]
    ELSE LET i == Invocation(beh, task.cb, task.type, trace, 0)
         IN  IF i.ret.kind # "raise"
             THEN [task |-> [task EXCEPT !.st = "done", !.ret = i.ret],
                   trace |-> i.trace]
             ELSE AsyncRetryLoop(beh, task, i.trace, retry - 1, swallow)

\* a step of a task takes effect: the task and the trace change, and a task
\* that ends with an exception adds it to the errors of its TaskGroup
Step(i, res) ==
    run' = [run EXCEPT !.tasks[i] = res.task,
                       !.trace = res.trace,
                       !.errors = IF res.task.st = "failed"
                                  THEN Append(@, res.task.exc) ELSE @]

\* the layers of the emit of the CallbackErrorAffair that have a task
Handlers(error_affair) ==
    SkipIdle(whens, error_affair,
             LayerSchedule(graphs, resolve_affair_types(error_affair)))

\* a task that takes a return that is neither a mapping nor None for a
\* failure of the callback and hands it to the recovery
Settle_Routed(i, r, trace) ==
    LET task == run.tasks[i]
        caught == [task EXCEPT !.exc = Exception(trace, task.cb)]
        error_affair == CallbackErrorAffair(run.affair, task.cb, caught.exc)
        emitted == Emitted(trace, error_affair, task.cb, task.type, 0)
        p == read_error_policy(<< >>)
    IN  IF r.kind \notin {"raise", "other"}
        THEN Step(i, [task |-> [task EXCEPT !.st = "done", !.ret = r],
                      trace |-> trace])
        ELSE IF Handlers(error_affair) # <<>>
        THEN Step(i, [task |-> [caught EXCEPT !.st = "handling"],
                      trace |-> emitted])
        ELSE Step(i, AsyncRetryLoop(run.beh, caught, emitted, p.retry,
                                    p.deadletter \/ p.silent))

\* _invoke_or_handle once the callback has returned or raised; the emit of the
\* CallbackErrorAffair returns {} without suspending when no callback fires
\* for it, and otherwise the task waits for it
Settle(i, r, trace) ==
    LET task == run.tasks[i]
        caught == [task EXCEPT !.exc = Exception(trace, task.cb)]
        error_affair == CallbackErrorAffair(run.affair, task.cb, caught.exc)
        emitted == Emitted(trace, error_affair, task.cb, task.type, 0)
        p == read_error_policy(<< >>)
    IN  IF r.kind # "raise"
        THEN Step(i, [task |-> [task EXCEPT !.st = "done", !.ret = r],
                      trace |-> trace])
        ELSE IF Handlers(error_affair) # <<>>
        THEN Step(i, [task |-> [caught EXCEPT !.st = "handling"],
                      trace |-> emitted])
        ELSE Step(i, AsyncRetryLoop(run.beh, caught, emitted, p.retry,
                                    p.deadletter \/ p.silent))

\* the first step of a task, in the order the tasks were created: the callback
\* runs up to its first await, or to its end
TaskStart ==
    /\ run.phase = "layer"
    /\ \E i \in DOMAIN run.tasks :
         LET task == run.tasks[i]
             b == run.beh[task.cb]
             r == IF Suspends(b) THEN [kind |-> "await"]
                  ELSE Invoke(b, task.cb, Calls(run.trace, task.cb) + 1)
             trace == Append(run.trace, [cb |-> task.cb, type |-> task.type,
                                         depth |-> 0, step |-> "call", ret |-> r])
         IN  /\ task.st = "new"
             /\ \A j \in 1..(i - 1) : run.tasks[j].st # "new"
             /\ IF Suspends(b)
                THEN run' = [run EXCEPT !.tasks[i].st = "await", !.trace = trace]
                ELSE Settle(i, r, trace)
    /\ UNCHANGED <<graphs, whens, nops, only_adds, last, aware>>

\* what a callback awaited is there: the callback runs to its end
TaskResume ==
    /\ run.phase = "layer"
    /\ Started(run.tasks)
    /\ \E i \in DOMAIN run.tasks :
         LET task == run.tasks[i]
             r == Invoke(run.beh[task.cb], task.cb, Calls(run.trace, task.cb))
         IN  /\ task.st = "await"
             /\ Settle(i, r, Append(run.trace,
                                    [cb |-> task.cb, type |-> task.type, depth |-> 0,
                                     step |-> "resume", ret |-> r]))
    /\ UNCHANGED <<graphs, whens, nops, only_adds, last, aware>>

\* the emit of the CallbackErrorAffair a task waited for is over: the task
\* reads the policy and retries its callback, up to the callback's next await
\* or to the task's end
PolicyRead ==
    /\ run.phase = "layer"
    /\ Started(run.tasks)
    /\ \E i \in DOMAIN run.tasks :
         LET task == run.tasks[i]
             error_affair == CallbackErrorAffair(run.affair, task.cb, task.exc)
             policy == PolicyLayers(whens, run.beh, error_affair,
                                    Handlers(error_affair), << >>, run.trace)
             p == read_error_policy(policy.result)
             broken(kind) == [task |-> [task EXCEPT !.st = "failed", !.ret = Raised,
                                                    !.exc = PolicyError(kind, task.cb)],
                              trace |-> policy.trace]
         IN  /\ task.st = "handling"
             /\ IF policy.outcome # "ok" THEN Step(i, broken(policy.outcome))
                ELSE IF ~p.ok THEN Step(i, broken("TypeError"))
                ELSE Step(i, AsyncRetryLoop(run.beh, task, policy.trace, p.retry,
                                            p.deadletter \/ p.silent))
    /\ UNCHANGED <<graphs, whens, nops, only_adds, last, aware>>

\* what a callback awaited in a retry is there: the callback runs to its end,
\* and the retry loop goes on if it raised
RetryResume ==
    /\ run.phase = "layer"
    /\ Started(run.tasks)
    /\ \E i \in DOMAIN run.tasks :
         LET task == run.tasks[i]
             r == Invoke(run.beh[task.cb], task.cb, Calls(run.trace, task.cb))
             trace == Append(run.trace,
                             [cb |-> task.cb, type |-> task.type, depth |-> 0,
                              step |-> "resume", ret |-> r])
         IN  /\ task.st = "retrying"
             /\ IF r.kind # "raise"
                THEN Step(i, [task |-> [task EXCEPT !.st = "done", !.ret = r],
                              trace |-> trace])
                ELSE Step(i, AsyncRetryLoop(run.beh, task, trace, task.retry,
                                            task.swallow))
    /\ UNCHANGED <<graphs, whens, nops, only_adds, last, aware>>

\* TaskGroup._on_task_done of the first task that raised: _abort cancels the
\* tasks that are not over; a cancelled task ends at its await
Abort ==
    /\ run.phase = "layer"
    /\ Started(run.tasks)
    /\ run.errors # <<>>
    /\ \E i \in DOMAIN run.tasks : ~Finished(run.tasks[i])
    /\ run' = [run EXCEPT !.tasks = [i \in DOMAIN run.tasks |->
                                        IF Finished(run.tasks[i]) THEN run.tasks[i]
                                        ELSE [run.tasks[i] EXCEPT !.st = "cancelled"]]]
    /\ UNCHANGED <<graphs, whens, nops, only_adds, last, aware>>

\* every task of the layer is over: the TaskGroup raises the ExceptionGroup of
\* the errors, or emit merges the results and goes on
LayerDone ==
    /\ run.phase = "layer"
    /\ \A i \in DOMAIN run.tasks : Finished(run.tasks[i])
    /\ LET m == MergeTasks(run.tasks, run.merged_result, run.affair.merge_strategy)
       IN  IF run.errors # <<>>
           THEN Finish(run.affair, "ExceptionGroup", << >>, run.trace, run.errors)
           ELSE IF m.outcome # "ok"
           THEN Finish(run.affair, m.outcome, << >>, run.trace, <<>>)
           ELSE EnterLayer(run.affair, run.beh, run.layers, m.result, run.trace)
    /\ UNCHANGED <<graphs, whens, nops, only_adds, aware>>

\* the behaviours of the callbacks of the concurrent emissions explored
SyncBehaviours == {"key_k", "own", "raise", "k_then_raise"}
AsyncBehaviours == {"key_k", "own", "raise", "k_then_raise", "await_k"}

\* registrations without predicates, and emissions on both dispatchers
NextAsync ==
    \/ Register(TypeLists, EmitCallbacks, {NoWhen}, FALSE)
    \/ Unregister(TypeLists, EmitCallbacks, FALSE)
    \/ Emit({"raise"}, {"go"}, EmitCallbacks, SyncBehaviours)
    \/ AsyncEmit({"raise"}, {"go"}, EmitCallbacks, AsyncBehaviours)
    \/ TaskStart
    \/ TaskResume
    \/ Abort
    \/ LayerDone

SpecAsync == Init /\ [][NextAsync]_vars

\* the merge strategies an affair can carry
MergeStrategies == {"raise", "keep", "override", "list_merge", "dict_merge"}

\* the behaviours of the callbacks of the emissions that compare strategies
MergeBehaviours == {"key_k", "own"}
AsyncMergeBehaviours == {"key_k", "own", "await_k"}

\* registrations without predicates, and emissions of affairs of every merge
\* strategy on both dispatchers, with callbacks that return mappings
NextMerge ==
    \/ Register(TypeLists, EmitCallbacks, {NoWhen}, FALSE)
    \/ Unregister(TypeLists, EmitCallbacks, FALSE)
    \/ Emit(MergeStrategies, {"go"}, EmitCallbacks, MergeBehaviours)
    \/ AsyncEmit(MergeStrategies, {"go"}, EmitCallbacks, AsyncMergeBehaviours)
    \/ TaskStart
    \/ TaskResume
    \/ LayerDone

SpecMerge == Init /\ [][NextMerge]_vars

\* the callbacks of the emissions that recover from failures: two on the
\* affair emitted, and a handler of the CallbackErrorAffair
Workers == {"a", "b"}
Handler == "c"

\* what the workers do, and what the handler returns as its policy
WorkerBehaviours == {"own", "raise", "flaky"}
AsyncWorkerBehaviours == {"own", "raise", "flaky", "await_flaky"}
HandlerBehaviours ==
    {"none", "retry1", "retry_str", "retry_neg", "retry_bad", "deadletter",
     "silent", "retry1_silent", "bad_silent"}
AsyncHandlerBehaviours == {"none", "retry1", "retry_bad", "silent", "bad_silent"}

\* every assignment of worker behaviours to the workers and of a handler
\* behaviour to the handler
Behaviours(workers, handlers) ==
    {[cb \in Callbacks |-> IF cb = "a" THEN wa ELSE IF cb = "b" THEN wb ELSE h] :
        wa \in workers, wb \in workers, h \in handlers}

\* the affairs emitted: Child instances with emit_up left at its default
RecoverAffairs(strategies) ==
    [type : {"Child"}, emit_up : {FALSE}, merge_strategy : strategies, msg : {"go"}]

\* workers registered on Child and the handler on the CallbackErrorAffair, in
\* every order and with every after list, and emissions on both dispatchers
NextRecover ==
    \/ Register({<<"Child">>}, Workers, {NoWhen}, FALSE)
    \/ Register({<<ErrorAffair>>}, {Handler}, {NoWhen}, FALSE)
    \/ Unregister({<<"Child">>, <<ErrorAffair>>}, Callbacks, FALSE)
    \/ EmitWith(RecoverAffairs({"raise", "list_merge"}),
                Behaviours(WorkerBehaviours, HandlerBehaviours))
    \/ AsyncEmitWith(RecoverAffairs({"raise", "list_merge", "dict_merge"}),
                     Behaviours(AsyncWorkerBehaviours, AsyncHandlerBehaviours))
    \/ TaskStart
    \/ TaskResume
    \/ PolicyRead
    \/ RetryResume
    \/ Abort
    \/ LayerDone

SpecRecover == Init /\ [][NextRecover]_vars

\* the affairs of the emissions that fail: Child instances under raise, with
\* and without emit_up
FailAffairs ==
    [type : {"Child"}, emit_up : BOOLEAN, merge_strategy : {"raise"}, msg : {"go"}]

\* callbacks that return a mapping of their own or the shared key, raise,
\* return something that is no mapping, or do so when retried; on the
\* concurrent dispatcher also callbacks that await first
FailWorkerBehaviours == {"own", "key_k", "raise", "other", "flaky_other"}
AsyncFailWorkerBehaviours == FailWorkerBehaviours \cup {"await_flaky"}

\* handlers that return nothing, swallow, retry and swallow, or return a
\* retry that is no number
FailHandlerBehaviours == {"none", "silent", "retry1_silent", "retry_bad"}

\* the worker that is registered on the ancestor type as well
Elder == "b"

\* workers registered on Child, one of them on Parent too, the handler on the
\* CallbackErrorAffair, and emissions on both dispatchers
NextFail ==
    \/ Register({<<"Child">>}, Workers, {NoWhen}, FALSE)
    \/ Register({<<"Parent">>}, {Elder}, {NoWhen}, FALSE)
    \/ Register({<<ErrorAffair>>}, {Handler}, {NoWhen}, FALSE)
    \/ EmitWith(FailAffairs, Behaviours(FailWorkerBehaviours, FailHandlerBehaviours))
    \/ AsyncEmitWith(FailAffairs,
                     Behaviours(AsyncFailWorkerBehaviours, FailHandlerBehaviours))
    \/ TaskStart
    \/ TaskResume
    \/ PolicyRead
    \/ RetryResume
    \/ Abort
    \/ LayerDone

SpecFail == Init /\ [][NextFail]_vars

\* the keys, the plain values and the callback names of the merges explored
MergeKeySet == {"k", "a"}
MergeValues == {Str("x"), Str("y")}
MergeNames == {"a", "b"}

\* the mappings over the keys whose values come from the given set
Mappings(values) ==
    UNION {[keys -> values] : keys \in SUBSET MergeKeySet}

\* the values a target holds when it was built under the strategy: lists
\* under list_merge, mappings from names under dict_merge, plain otherwise
StoredValues(strategy) ==
    CASE strategy = "list_merge" ->
             {[t |-> "list", v |-> vs] :
                 vs \in {<<x>> : x \in MergeValues}
                        \cup {<<x, y>> : x \in MergeValues, y \in MergeValues}}
      [] strategy = "dict_merge" ->
             {[t |-> "dict", v |-> m] :
                 m \in UNION {[names -> MergeValues] :
                                 names \in SUBSET MergeNames \ {{}}}}
      [] OTHER -> MergeValues

\* every strategy merge_dict knows
AllStrategies == {"raise", "keep", "override", "list_merge", "dict_merge"}

\* merge_dict(target, source, strategy=..., source_name=...) called on its
\* own, once in a run: with an empty source on a target of any shape, with
\* another source on a target built under the strategy
MergeCall ==
    /\ Building
    /\ last.op = "setup"
    /\ \E strategy \in AllStrategies, source \in Mappings(MergeValues),
          built \in AllStrategies, source_name \in MergeNames :
         \E target \in Mappings(StoredValues(built)) :
            /\ source # << >> => built = strategy
            /\ last' = [op |-> "merge_dict", target |-> target, source |-> source,
                        strategy |-> strategy, source_name |-> source_name,
                        result |-> merge_dict(target, source, strategy, source_name)]
    /\ UNCHANGED <<graphs, whens, nops, only_adds, run, aware>>

NextMergeDict == MergeCall

SpecMergeDict == Init /\ [][NextMergeDict]_vars

\* the marked method of the AffairAware class of the model, bound to the
\* instance, and the callback other code registers
Method == "a"
Others == {"b"}

\* the type lists given to on_method
MethodTypeLists == {<<"Child">>, <<"Child", "Parent">>}

\* AffairAwareMeta.__call__: the instance is created and
\* _bind_affair_methods registers its marked method, bound, and notes the
\* registration; when register raises, so does the constructor and there is
\* no instance
Bind ==
    /\ Building
    /\ aware.state = "none"
    /\ \E ts \in MethodTypeLists, after \in SUBSET Others :
         LET r == add(graphs, ts, Method, after)
         IN  /\ graphs' = r.graphs
             /\ whens' = StoreWhen(whens, r.graphs,
                                   Accepted(graphs, ts, Method, after), Method, NoWhen)
             /\ aware' = IF r.outcome = "ok"
                          THEN [state |-> "bound",
                                registrations |-> <<[types |-> ts, callback |-> Method]>>]
                          ELSE [state |-> "failed"]
    /\ UNCHANGED <<nops, only_adds, last, run>>

\* AffairAware.unregister's loop: dispatcher.unregister(*affair_types,
\* callback=callback) for every registration noted, exceptions dropped
RECURSIVE UnregisterAll(_, _)
UnregisterAll(gs, registrations) ==
    IF registrations = <<>> THEN gs
    ELSE UnregisterAll(unregister(gs, Head(registrations).types,
                                  Head(registrations).callback).graphs,
                       Tail(registrations))

\* instance.unregister(), or leaving the with block of the instance (with or
\* without an exception): the loop, then _affair_registrations.clear(); the
\* state keeps the registry as it was before the first call and counts the
\* calls
Teardown ==
    /\ Building
    /\ aware.state \in {"bound", "unregistered"}
    /\ aware.state = "unregistered" => aware.calls < MaxTeardowns
    /\ LET gs == UnregisterAll(graphs, aware.registrations)
       IN  /\ graphs' = gs
           /\ whens' = StoreWhen(whens, gs, {}, Method, NoWhen)
           /\ aware' = [state |-> "unregistered", registrations |-> <<>>,
                        before |-> IF aware.state = "bound" THEN graphs
                                   ELSE aware.before,
                        first |-> IF aware.state = "bound" THEN gs ELSE aware.first,
                        calls |-> IF aware.state = "bound" THEN 1
                                  ELSE aware.calls + 1]
    /\ UNCHANGED <<nops, only_adds, last, run>>

\* other code registers its callback, before the instance exists or while it
\* is bound, also behind the instance's method
OtherRegister ==
    /\ aware.state \in {"none", "bound"}
    /\ RegisterAfter({<<"Child">>, <<"Parent">>}, Others, Others \cup {Method},
                     {NoWhen}, FALSE)

\* an emit of a Child instance, with and without emit_up, to callbacks that
\* return None
AwareEmit ==
    EmitWith(Affairs({"raise"}, {"go"}), [Callbacks -> {"none"}])

NextAware ==
    \/ OtherRegister
    \/ Bind
    \/ Teardown
    \/ AwareEmit

SpecAware == Init /\ [][NextAware]_vars

\* a lookup that subscripts the defaultdict: a missing key is created empty
lookup_default(gs, t) ==
    [found |-> TRUE, graphs |-> IF t \in DOMAIN gs THEN gs ELSE SetGraph(gs, t, EmptyGraph)]

\* exec_order's 'affair_type not in self._graphs': the membership test of a
\* defaultdict creates no key
lookup(gs, t) == [found |-> t \in DOMAIN gs, graphs |-> gs]

\* BaseRegistry.exec_order as a call on the registry: the layers it returns
\* and the registry it leaves
exec_order_call(gs, t) ==
    LET l == lookup(gs, t)
    IN  [layers |-> IF l.found
                    THEN Tail(bfs_layers(l.graphs[t], <<Guardian>>, {Guardian}))
                    ELSE <<>>,
         graphs |-> l.graphs]

\* the registry after exec_order was called for each type of the list
RECURSIVE ReadTypes(_, _)
ReadTypes(gs, affair_types) ==
    IF affair_types = <<>> THEN gs
    ELSE ReadTypes(exec_order_call(gs, Head(affair_types)).graphs, Tail(affair_types))

\* the types an emission called exec_order for: the types of the affair up to
\* the one whose callback ended the emission, and the CallbackErrorAffair
\* when a callback raised
TypesRead(affair, r) ==
    LET affair_types == resolve_affair_types(affair)
        top == SelectSeq(r.trace, LAMBDA e : e.depth = 0)
        walked == IF r.outcome # "ok" /\ top # <<>>
                     /\ top[Len(top)].type = Head(affair_types)
                  THEN <<Head(affair_types)>>
                  ELSE affair_types
    IN  walked \o (IF \E i \in DOMAIN r.trace : r.trace[i].step = "emit"
                   THEN <<ErrorAffair>> ELSE <<>>)

\* the types registered and queried by the runs that read the registry
ReadTypeLists == {<<"Child">>, <<"Parent">>}
ReadBehaviours == {"none", "key_k", "raise"}

\* registry.exec_order(type), recorded with the registry before the call
Query ==
    /\ Building
    /\ \E t \in Types :
         LET r == exec_order_call(graphs, t)
         IN  /\ graphs' = r.graphs
             /\ last' = [op |-> "exec_order", type |-> t, layers |-> r.layers,
                         before |-> graphs]
    /\ UNCHANGED <<whens, nops, only_adds, run, aware>>

\* dispatcher.emit(affair) with the registry its exec_order calls leave,
\* recorded with the registry before the call
ReadEmit ==
    /\ Building
    /\ \E affair \in Affairs({"raise"}, {"go"}), beh \in [EmitCallbacks -> ReadBehaviours] :
         LET r == emit(graphs, whens, beh, affair, <<>>, 0)
         IN  /\ graphs' = ReadTypes(graphs, TypesRead(affair, r))
             /\ last' = [op |-> "emit", engine |-> "sync", affair |-> affair,
                         outcome |-> r.outcome, result |-> r.result,
                         trace |-> r.trace, errors |-> r.errors, before |-> graphs]
    /\ UNCHANGED <<whens, nops, only_adds, run, aware>>

\* registrations, removals, queries of exec_order and synchronous emissions
NextRead ==
    \/ Register(ReadTypeLists, EmitCallbacks, {NoWhen}, FALSE)
    \/ Unregister(ReadTypeLists, EmitCallbacks, FALSE)
    \/ Query
    \/ ReadEmit

SpecRead == Init /\ [][NextRead]_vars

\* an 'except Exception' that catches every exception, as where
\* CancelledError derives from Exception
except_Exception_Any(error) == TRUE

\* 'except Exception' of _invoke_or_handle and of the retry loop:
\* asyncio.CancelledError derives from BaseException and passes through
except_Exception(error) == error # "CancelledError"

\* CancelledError is thrown into a task at its await (of the callback, of a
\* retry of the callback, or of the emit of the CallbackErrorAffair): the
\* task ends cancelled, unless 'except Exception' takes the cancellation for
\* a failure of the callback and emits the CallbackErrorAffair for it
cancel_task(task, trace, affair) ==
    LET exc == [error |-> "CancelledError", cb |-> task.cb, n |-> Calls(trace, task.cb)]
    IN  IF except_Exception(exc.error)
        THEN [task |-> [task EXCEPT !.st = "failed", !.ret = Raised, !.exc = exc],
              trace |-> Emitted(trace, CallbackErrorAffair(affair, task.cb, exc),
                                task.cb, task.type, 0)]
        ELSE [task |-> [task EXCEPT !.st = "cancelled"], trace |-> trace]

\* TaskGroup._abort on the cancellation of the caller: every task that is
\* not over is cancelled, in the order of creation
RECURSIVE CancelTasks(_, _, _)
CancelTasks(tasks, trace, affair) ==
    IF tasks = <<>> THEN [tasks |-> <<>>, trace |-> trace]
    ELSE LET c == IF Finished(Head(tasks)) THEN [task |-> Head(tasks), trace |-> trace]
                  ELSE cancel_task(Head(tasks), trace, affair)
             rest == CancelTasks(Tail(tasks), c.trace, affair)
         IN  [tasks |-> <<c.task>> \o rest.tasks, trace |-> rest.trace]

\* the caller cancels the task that awaits emit while emit waits at the end
\* of its TaskGroup block: the TaskGroup cancels its tasks, waits for them
\* and raises the ExceptionGroup of the errors it holds, or else the
\* CancelledError; the record keeps the tasks and the trace before the
\* cancellation and the layers not yet entered
Cancel ==
    /\ run.phase = "layer"
    /\ Started(run.tasks)
    /\ \E i \in DOMAIN run.tasks : ~Finished(run.tasks[i])
    /\ LET c == CancelTasks(run.tasks, run.trace, run.affair)
           errors == run.errors \o
                     [i \in DOMAIN SelectSeq(c.tasks, LAMBDA t : t.st = "failed" /\ t.exc.error = "CancelledError") |->
                         SelectSeq(c.tasks, LAMBDA t : t.st = "failed" /\ t.exc.error = "CancelledError")[i].exc]
       IN  /\ run' = [phase |-> "idle"]
           /\ last' = [op |-> "emit", engine |-> "async", affair |-> run.affair,
                       outcome |-> IF errors # <<>> THEN "ExceptionGroup"
                                   ELSE "CancelledError",
                       result |-> << >>, trace |-> c.trace, errors |-> errors,
                       tasks |-> c.tasks, tasks_before |-> run.tasks,
                       trace_before |-> run.trace, pending |-> run.layers]
    /\ UNCHANGED <<graphs, whens, nops, only_adds, aware>>

\* what the callbacks of the cancelled emissions do
CancelWorkerBehaviours == {"key_k", "await_k", "raise", "await_flaky"}
CancelHandlerBehaviours == {"none", "retry1"}

\* workers registered on Child and the handler on the CallbackErrorAffair,
\* and concurrent emissions the caller may cancel
NextCancel ==
    \/ Register({<<"Child">>}, Workers, {NoWhen}, FALSE)
    \/ Register({<<ErrorAffair>>}, {Handler}, {NoWhen}, FALSE)
    \/ AsyncEmitWith(RecoverAffairs({"raise"}),
                     Behaviours(CancelWorkerBehaviours, CancelHandlerBehaviours))
    \/ TaskStart
    \/ TaskResume
    \/ PolicyRead
    \/ RetryResume
    \/ Abort
    \/ LayerDone
    \/ Cancel

SpecCancel == Init /\ [][NextCancel]_vars

\* the emissions that run at the same time on one dispatcher
MaxEmissions == 2

\* what a callback that is a pure function of the event returns: a value
\* that tells the callback and the message of the affair
Echo(cb, affair) ==
    Str(IF affair.msg = "go" THEN cb ELSE IF cb = "a" THEN "A" ELSE "B")

PureInvoke(behaviour, cb, affair) ==
    CASE behaviour = "key_k" -> RetDict([x \in {"k"} |-> Echo(cb, affair)])
      [] behaviour = "own"   -> RetDict([x \in {cb} |-> Echo(cb, affair)])
      [] OTHER -> RetNone

\* an emit that accumulates in the mapping of the emission that started
\* first, as an attribute of the dispatcher would be
new_result_shared(heap) ==
    IF heap = <<>> THEN [ref |-> 1, heap |-> << << >> >>]
    ELSE [ref |-> 1, heap |-> heap]

\* 'merged_result: dict[str, Any] = {}' of emit: a new mapping, held by the
\* local variable of this call
new_result(heap) == [ref |-> Len(heap) + 1, heap |-> Append(heap, << >>)]

\* one layer of a concurrent emit with callbacks that return at once: the
\* tasks of the layer, then the merge loop into merged_result
RunLayer(ws, beh, affair, l, merged_result) ==
    LET tasks == create_tasks(ws, l, affair)
        done == [i \in DOMAIN tasks |->
                    [tasks[i] EXCEPT !.st = "done",
                                     !.ret = PureInvoke(beh[tasks[i].cb], tasks[i].cb, affair)]]
    IN  MergeTasks(done, merged_result, affair.merge_strategy)

\* the emit of the affair when no other emission runs
RECURSIVE RunAlone(_, _, _, _, _)
RunAlone(ws, beh, affair, layers, merged_result) ==
    IF layers = <<>> THEN [outcome |-> "ok", result |-> merged_result]
    ELSE LET m == RunLayer(ws, beh, affair, Head(layers), merged_result)
         IN  IF m.outcome # "ok" THEN m
             ELSE RunAlone(ws, beh, affair, Tail(layers), m.result)

\* the affairs of the emissions that run at the same time: the first with
\* the message "go" and the second with the message "stop", both under the
\* same merge strategy
PairAffairs ==
    [type : {"Child"}, emit_up : BOOLEAN,
     merge_strategy : {"raise", "override", "list_merge", "dict_merge"},
     msg : {"go", "stop"}]

\* 'await dispatcher.emit(affair)' is called, by a task of the application
\* or by a callback of an emission that is under way, while at most one
\* other emission runs: emit makes its merged_result and enters the first
\* layer
PairEmit ==
    /\ \/ Building /\ last.op = "setup"
       \/ run.phase = "pair" /\ Len(run.ems) < MaxEmissions
    /\ \E affair \in PairAffairs, beh \in [EmitCallbacks -> {"key_k", "own"}] :
         LET heap == IF run.phase = "pair" THEN run.heap ELSE <<>>
             ems == IF run.phase = "pair" THEN run.ems ELSE <<>>
             n == new_result(heap)
         IN  /\ run.phase = "pair" =>
                   /\ beh = run.beh
                   /\ affair.msg = "stop"
                   /\ affair.merge_strategy = ems[1].affair.merge_strategy
             /\ run.phase # "pair" => affair.msg = "go"
             /\ run' = [phase |-> "pair", beh |-> beh, heap |-> n.heap,
                        ems |-> Append(ems,
                                   [affair |-> affair, ref |-> n.ref, st |-> "running",
                                    layers |-> LayerSchedule(graphs,
                                                   resolve_affair_types(affair)),
                                    outcome |-> "ok", result |-> << >>])]
    /\ UNCHANGED <<graphs, whens, nops, only_adds, last, aware>>

\* an emission that is under way leaves the TaskGroup of its layer, merges
\* the results of the layer into its merged_result and enters the next
\* layer, or returns merged_result when no layer is left
PairLayer ==
    /\ run.phase = "pair"
    /\ \E e \in DOMAIN run.ems :
         LET em == run.ems[e]
             m == RunLayer(whens, run.beh, em.affair, Head(em.layers), run.heap[em.ref])
         IN  /\ em.st = "running"
             /\ IF em.layers = <<>>
                THEN run' = [run EXCEPT !.ems[e].st = "over",
                                        !.ems[e].result = run.heap[em.ref]]
                ELSE IF m.outcome # "ok"
                THEN run' = [run EXCEPT !.ems[e].st = "over",
                                        !.ems[e].outcome = m.outcome]
                ELSE run' = [run EXCEPT !.ems[e].layers = Tail(em.layers),
                                        !.heap[em.ref] = m.result]
    /\ UNCHANGED <<graphs, whens, nops, only_adds, last, aware>>

\* both emissions are over: what each returned or raised is recorded
PairDone ==
    /\ run.phase = "pair"
    /\ Len(run.ems) = MaxEmissions
    /\ \A e \in DOMAIN run.ems : run.ems[e].st = "over"
    /\ last' = [op |-> "emits", beh |-> run.beh, ems |-> run.ems]
    /\ run' = [phase |-> "idle"]
    /\ UNCHANGED <<graphs, whens, nops, only_adds, aware>>

\* registrations, and two emissions on the concurrent dispatcher that
\* overlap in every way
NextPair ==
    \/ last.op = "setup" /\ Register({<<"Child">>, <<"Parent">>}, EmitCallbacks, {NoWhen}, FALSE)
    \/ PairEmit
    \/ PairLayer
    \/ PairDone

SpecPair == Init /\ [][NextPair]_vars

\* what the handler of the CallbackErrorAffair does in the emissions whose
\* handler may fail itself
LoopHandlerBehaviours == {"none", "retry1", "flaky", "raise"}

\* workers on Child, a handler on the CallbackErrorAffair that may raise, and
\* synchronous emissions
NextLoop ==
    \/ Register({<<"Child">>}, Workers, {NoWhen}, FALSE)
    \/ Register({<<ErrorAffair>>}, {Handler}, {NoWhen}, FALSE)
    \/ Unregister({<<"Child">>, <<ErrorAffair>>}, Callbacks, FALSE)
    \/ EmitWith(RecoverAffairs({"raise"}),
                Behaviours({"own", "raise", "flaky"}, LoopHandlerBehaviours))

SpecLoop == Init /\ [][NextLoop]_vars

\* the callback that callbacks register while an emission is under way
Late == "c"

\* what a callback that changes the registry does when it is invoked for
\* the type: it registers Late on the type, without after or after itself,
\* or unregisters a callback from the type; the registry it leaves
Mutate(gs, behaviour, cb, t) ==
    CASE behaviour = "add_late"       -> add(gs, <<t>>, Late, {}).graphs
      [] behaviour = "add_late_after" -> add(gs, <<t>>, Late, {cb}).graphs
      [] behaviour = "remove_a"       -> unregister(gs, <<t>>, "a").graphs
      [] behaviour = "remove_b"       -> unregister(gs, <<t>>, "b").graphs
      [] OTHER -> gs

MutateBehaviours == {"none", "add_late", "add_late_after", "remove_a", "remove_b"}

\* a walk that asks exec_order again after every callback and goes on with
\* the callbacks it has not invoked yet
next_callbacks_live(gs, t, rest, done) ==
    SelectSeq(Flat(exec_order(gs, t)), LAMBDA cb : cb \notin done)

\* 'for layer in layers: for cb in layer' over the list exec_order returned:
\* the callbacks left are those of the list, whatever the registry holds now
next_callbacks(gs, t, rest, done) == Tail(rest)

\* the loops of emit over the callbacks fetched for one type, with callbacks
\* that change the registry
RECURSIVE Walk(_, _, _, _, _, _)
Walk(gs, beh, t, rest, done, trace) ==
    IF rest = <<>> THEN [graphs |-> gs, trace |-> trace]
    ELSE LET cb == Head(rest)
             gs1 == Mutate(gs, beh[cb], cb, t)
         IN  Walk(gs1, beh, t, next_callbacks(gs1, t, rest, done \cup {cb}),
                  done \cup {cb},
                  Append(trace, [cb |-> cb, type |-> t, depth |-> 0, step |-> "call",
                                 ret |-> RetNone]))

\* emit's loop over the types: 'layers = self._registry.exec_order(affair_type)'
\* when the dispatch for the type starts; fetched keeps what it returned
RECURSIVE WalkTypes(_, _, _, _, _)
WalkTypes(gs, beh, affair_types, trace, fetched) ==
    IF affair_types = <<>> THEN [graphs |-> gs, trace |-> trace, fetched |-> fetched]
    ELSE LET t == Head(affair_types)
             layers == exec_order(gs, t)
             w == Walk(gs, beh, t, Flat(layers), {}, trace)
         IN  WalkTypes(w.graphs, beh, Tail(affair_types), w.trace,
                       Append(fetched, [type |-> t, layers |-> layers]))

\* dispatcher.emit(affair) with callbacks that register and unregister
\* callbacks on the type dispatched
ReentrantEmit ==
    /\ Building
    /\ \E affair \in Affairs({"raise"}, {"go"}),
          beh \in {[cb \in Callbacks |-> IF cb = "a" THEN x ELSE IF cb = "b" THEN y
                                         ELSE "none"] :
                      x \in MutateBehaviours, y \in MutateBehaviours} :
         LET r == WalkTypes(graphs, beh, resolve_affair_types(affair), <<>>, <<>>)
         IN  /\ graphs' = r.graphs
             /\ last' = [op |-> "emit", engine |-> "sync", affair |-> affair,
                         outcome |-> "ok", result |-> << >>, trace |-> r.trace,
                         errors |-> <<>>, fetched |-> r.fetched, beh |-> beh,
                         before |-> graphs]
    /\ UNCHANGED <<whens, nops, only_adds, run, aware>>

\* registrations of a and b, and emissions whose callbacks change the
\* registry
NextReentrant ==
    \/ Register({<<"Child">>, <<"Parent">>}, EmitCallbacks, {NoWhen}, FALSE)
    \/ Unregister({<<"Child">>, <<"Parent">>}, EmitCallbacks, FALSE)
    \/ ReentrantEmit

SpecReentrant == Init /\ [][NextReentrant]_vars

\* ------------------------------------------------------------------------
\* Reading exec_order
\* ------------------------------------------------------------------------

\* the callbacks exec_order yields for a type
Ordered(gs, t) == Range(Flat(exec_order(gs, t)))

\* the index of the layer of exec_order that holds the callback
LayerIndex(gs, t, cb) ==
    CHOOSE i \in 1..Len(exec_order(gs, t)) : cb \in Range(exec_order(gs, t)[i])

\* exec_order of every type
ExecOrders(gs) == [t \in Types |-> exec_order(gs, t)]

\* dep -> cb is an edge of the type's graph: cb was registered with dep in after
After(gs, t, dep, cb) == t \in DOMAIN gs /\ cb \in Range(gs[t].succ[dep])

\* ------------------------------------------------------------------------
\* Claims
\* ------------------------------------------------------------------------

\* C1: after accepted add calls only, every callback that exec_order yields
\* lies in a layer strictly later than the layer of each of its after
\* dependencies.
C1_ValidLayering ==
    only_adds =>
        \A t \in DOMAIN graphs : \A dep, cb \in Registered(graphs, t) :
            After(graphs, t, dep, cb) =>
                /\ dep \in Ordered(graphs, t)
                /\ cb \in Ordered(graphs, t)
                /\ LayerIndex(graphs, t, cb) > LayerIndex(graphs, t, dep)

\* C3: a register call rejected with a cyclic-dependency error leaves
\* exec_order of every type as it was before the call.
C3_CycleRejectionAtomic ==
    (last.op = "register" /\ last.outcome = "CyclicDependencyError") =>
        ExecOrders(graphs) = ExecOrders(last.before)

\* C4: a register call rejected because an after dependency is not registered
\* on one of its types leaves exec_order of every type as it was before.
C4_UnknownDepRejectionAtomic ==
    (last.op = "register" /\ last.outcome = "ValueError") =>
        ExecOrders(graphs) = ExecOrders(last.before)

\* the last call was unregister(T.., callback=cb) with both given
PairRemoved ==
    /\ last.op = "unregister"
    /\ last.types # <<>>
    /\ last.callback # NoCallback

\* C5: unregister(T, callback=a) removes only that pairing: every other
\* callback that exec_order(T) yielded before the call is still yielded.
C5_RemoveOnlyThatPairing ==
    PairRemoved =>
        \A t \in Range(last.types) :
            Ordered(last.before, t) \ {last.callback} \subseteq Ordered(graphs, t)

\* the layers without the callback, empty layers dropped
RECURSIVE Without(_, _)
Without(layers, cb) ==
    IF layers = <<>> THEN <<>>
    ELSE LET l == SelectSeq(Head(layers), LAMBDA x : x # cb)
         IN  (IF l = <<>> THEN <<>> ELSE <<l>>) \o Without(Tail(layers), cb)

\* the callback is registered on the type and no callback lists it in after
Leaf(gs, t, cb) == cb \in Registered(gs, t) /\ gs[t].succ[cb] = <<>>

\* C6: removing a leaf callback from type T makes it absent from
\* exec_order(T), leaves the layers of the other callbacks of T as they were,
\* and leaves exec_order of every type not named in the call unchanged.
C6_LeafRemovalFrame ==
    PairRemoved =>
        /\ \A t \in Range(last.types) :
              Leaf(last.before, t, last.callback) =>
                /\ last.callback \notin Ordered(graphs, t)
                /\ exec_order(graphs, t) =
                     Without(exec_order(last.before, t), last.callback)
        /\ \A u \in Types \ Range(last.types) :
              exec_order(graphs, u) = exec_order(last.before, u)

\* a leaf was removed from a type that keeps other callbacks, while the same
\* callback stays in exec_order of another type
C6_Witness ==
    /\ PairRemoved
    /\ \E t \in Range(last.types) :
          /\ Leaf(last.before, t, last.callback)
          /\ last.callback \in Ordered(last.before, t)
          /\ Ordered(graphs, t) # {}
    /\ \E u \in Types \ Range(last.types) : last.callback \in Ordered(graphs, u)

\* the places of the trace where the callback was invoked for the type by the
\* emission itself
InvokedAt(trace, cb, t) ==
    {i \in DOMAIN trace : /\ trace[i].cb = cb
                          /\ trace[i].type = t
                          /\ trace[i].depth = 0
                          /\ trace[i].step = "call"}

\* C2: on the synchronous dispatcher, when b is registered on a type with a
\* in its after list, every invocation of a for an emit of that type comes
\* before every invocation of b.
C2_SyncOrdering ==
    (last.op = "emit" /\ last.engine = "sync") =>
        \A t \in Types : \A a, b \in EmitCallbacks :
            After(graphs, t, a, b) =>
                \A i \in InvokedAt(last.trace, a, t) :
                    \A j \in InvokedAt(last.trace, b, t) : i < j

\* the affair emit(T()) dispatches: the defaults of every field
DefaultAffair(t) ==
    [type |-> t, emit_up |-> FALSE, merge_strategy |-> "raise", msg |-> "go"]

\* C7: unregister(T) without a callback leaves exec_order(T) empty and an
\* emit of T returns {} without invoking anything; unregister(callback=cb)
\* without types takes cb out of exec_order of every type; unregister() with
\* neither raises ValueError and leaves the registry as it was.
C7_UnregisterModes ==
    last.op = "unregister" =>
        /\ (last.types # <<>> /\ last.callback = NoCallback) =>
              \A t \in Range(last.types) :
                  /\ exec_order(graphs, t) = <<>>
                  /\ \A beh \in [Callbacks -> {"key_k", "raise"}] :
                        LET r == emit(graphs, whens, beh, DefaultAffair(t), <<>>, 0)
                        IN  r.outcome = "ok" /\ r.result = << >> /\ r.trace = <<>>
        /\ (last.types = <<>> /\ last.callback # NoCallback) =>
              \A t \in Types : last.callback \notin Ordered(graphs, t)
        /\ (last.types = <<>> /\ last.callback = NoCallback) =>
              last.outcome = "ValueError" /\ graphs = last.before

\* unregister(T) emptied a type that had callbacks in its exec_order, while
\* another type keeps its callbacks
C7_Witness ==
    /\ last.op = "unregister"
    /\ last.types # <<>>
    /\ last.callback = NoCallback
    /\ last.outcome = "ok"
    /\ \E t \in Range(last.types) : Ordered(last.before, t) # {}
    /\ \E u \in Types : Ordered(graphs, u) # {}

\* the mappings the callbacks of the emission returned, in the order returned
Returned(trace) ==
    SelectSeq(trace, LAMBDA e : e.depth = 0 /\ e.ret.kind = "dict")

\* C8: an emit of a Child instance with emit_up false invokes callbacks for
\* the Child type only; with emit_up true every invocation for Child comes
\* before every invocation for the ancestor Parent, and when emit returns,
\* every callback exec_order yields for either type was invoked and the
\* returned mapping holds exactly the keys and values the callbacks returned.
C8_HierarchyDispatch ==
    last.op = "emit" =>
        /\ ~last.affair.emit_up =>
              \A i \in DOMAIN last.trace : last.trace[i].type = last.affair.type
        /\ last.affair.emit_up =>
              \A i, j \in DOMAIN last.trace :
                  (last.trace[i].type = "Child" /\ last.trace[j].type = "Parent")
                      => i < j
        /\ last.outcome = "ok" =>
              LET rets == Returned(last.trace)
              IN  /\ \A t \in Range(resolve_affair_types(last.affair)) :
                        \A cb \in Ordered(graphs, t) :
                            InvokedAt(last.trace, cb, t) # {}
                  /\ DOMAIN last.result =
                        UNION {DOMAIN rets[i].ret.map : i \in DOMAIN rets}
                  /\ \A i \in DOMAIN rets : \A key \in DOMAIN rets[i].ret.map :
                        last.result[key] = rets[i].ret.map[key]

\* an emit with emit_up on the concurrent dispatcher returned a mapping that
\* holds a key from a Child callback and a key from a Parent callback
C8_Witness ==
    /\ last.op = "emit"
    /\ last.engine = "async"
    /\ last.affair.emit_up
    /\ last.outcome = "ok"
    /\ \E i, j \in DOMAIN last.trace :
          /\ last.trace[i].type = "Child"
          /\ last.trace[j].type = "Parent"
          /\ last.trace[i].ret.kind = "dict"
          /\ last.trace[j].ret.kind = "dict"
          /\ last.trace[i].cb # last.trace[j].cb
    /\ Cardinality(DOMAIN last.result) = 2

\* C9: in an emission that returns, a callback registered on a dispatched
\* type is invoked if and only if it was registered without a predicate or
\* its predicate holds of the affair.
C9_PredicateFiltering ==
    (last.op = "emit" /\ last.outcome = "ok") =>
        \A t \in Range(resolve_affair_types(last.affair)) :
            \A cb \in Registered(graphs, t) :
                InvokedAt(last.trace, cb, t) # {}
                    <=> should_fire(whens, cb, t, last.affair)

\* two different callbacks of the emission returned mappings that share a key
SharedKey(trace) ==
    LET rets == Returned(trace)
    IN  \E i, j \in DOMAIN rets :
            /\ rets[i].cb # rets[j].cb
            /\ DOMAIN rets[i].ret.map \cap DOMAIN rets[j].ret.map # {}

\* C10 as stated: under the raise strategy, when two callbacks of one
\* emission return mappings sharing a key, emit fails with a key-conflict
\* error, on either dispatcher.
C10_KeyConflictAlways ==
    (last.op = "emit" /\ last.affair.merge_strategy = "raise"
                      /\ SharedKey(last.trace)) =>
        last.outcome = "KeyConflictError"

\* C10, amended: under the raise strategy, when two callbacks of one emission
\* return mappings sharing a key, emit fails; with a key-conflict error on the
\* synchronous dispatcher, and on the concurrent one with a key-conflict
\* error unless a task of the layer raised (the ExceptionGroup is raised
\* before anything is merged) or a non-mapping result is met first.
C10_KeyConflictUnlessLayerFails ==
    (last.op = "emit" /\ last.affair.merge_strategy = "raise"
                      /\ SharedKey(last.trace)) =>
        \/ last.outcome = "KeyConflictError"
        \/ /\ last.engine = "async"
           /\ last.outcome = "ExceptionGroup"
           /\ last.errors # <<>>
        \/ /\ last.engine = "async"
           /\ last.outcome = "TypeError"
           /\ \E i \in DOMAIN last.trace : last.trace[i].ret.kind = "other"

\* the concurrent dispatcher met the shared key while merging the layer of an
\* ancestor type, the other mapping coming from the Child type
C10_Witness ==
    /\ last.op = "emit"
    /\ last.engine = "async"
    /\ last.outcome = "KeyConflictError"
    /\ \E i, j \in DOMAIN last.trace :
          /\ last.trace[i].type = "Child"
          /\ last.trace[j].type = "Parent"
          /\ last.trace[i].cb # last.trace[j].cb
          /\ last.trace[i].ret.kind = "dict"
          /\ last.trace[j].ret.kind = "dict"
          /\ DOMAIN last.trace[i].ret.map \cap DOMAIN last.trace[j].ret.map # {}

\* the values the callbacks of the emission returned for the key, in the
\* order returned
ValuesFor(trace, key) ==
    LET rets == SelectSeq(Returned(trace), LAMBDA e : key \in DOMAIN e.ret.map)
    IN  [i \in DOMAIN rets |-> rets[i].ret.map[key]]

\* C11: on the synchronous dispatcher, when two callbacks of an emission
\* return a value for the same key, emit under keep returns the value
\* returned first and emit under override the value returned last, and
\* neither fails with a key-conflict error.
C11_SyncHonoursStrategy ==
    (/\ last.op = "emit"
     /\ last.engine = "sync"
     /\ last.affair.merge_strategy \in {"keep", "override"}) =>
        \A key \in Range(KeyOrder) :
            LET vs == ValuesFor(last.trace, key)
            IN  Len(vs) >= 2 =>
                    /\ last.outcome = "ok"
                    /\ key \in DOMAIN last.result
                    /\ last.affair.merge_strategy = "keep" =>
                          last.result[key] = vs[1]
                    /\ last.affair.merge_strategy = "override" =>
                          last.result[key] = vs[Len(vs)]

\* the place, in the order the emission walks them, of the layer that holds
\* the callback for the type
LayerPos(gs, affair, t, cb) ==
    LET sched == LayerSchedule(gs, resolve_affair_types(affair))
    IN  CHOOSE p \in DOMAIN sched :
            sched[p].type = t /\ cb \in Range(sched[p].layer)

\* the returns of the emission that carry the key, each with its layer's place
KeyReturns(gs, affair, trace, key) ==
    {[pos |-> LayerPos(gs, affair, e.type, e.cb), value |-> e.ret.map[key]] :
        e \in {x \in Range(Returned(trace)) : key \in DOMAIN x.ret.map}}

\* C12: on the concurrent dispatcher, under keep and under override emit
\* returns, and for every key returned by callbacks of different layers
\* (of one type, or of the child and the ancestor type) the result holds a
\* value returned in the earliest of these layers under keep and a value
\* returned in the latest of them under override, however the tasks
\* interleave.
C12_AsyncHonoursStrategy ==
    (/\ last.op = "emit"
     /\ last.engine = "async"
     /\ last.affair.merge_strategy \in {"keep", "override"}) =>
        /\ last.outcome = "ok"
        /\ \A key \in Range(KeyOrder) :
              LET rs == KeyReturns(graphs, last.affair, last.trace, key)
                  first == {r \in rs : \A q \in rs : r.pos <= q.pos}
                  final == {r \in rs : \A q \in rs : r.pos >= q.pos}
              IN  rs # {} =>
                      /\ key \in DOMAIN last.result
                      /\ last.affair.merge_strategy = "keep" =>
                            last.result[key] \in {r.value : r \in first}
                      /\ last.affair.merge_strategy = "override" =>
                            last.result[key] \in {r.value : r \in final}

\* an emit under override on the concurrent dispatcher returned, for a key
\* two different callbacks returned, the value of the callback of the later
\* layer, which had awaited before it returned
C12_Witness ==
    /\ last.op = "emit"
    /\ last.engine = "async"
    /\ last.affair.merge_strategy = "override"
    /\ last.outcome = "ok"
    /\ \E r, q \in KeyReturns(graphs, last.affair, last.trace, "k") :
          /\ r.pos < q.pos
          /\ r.value # q.value
          /\ last.result["k"] = q.value
    /\ \E i \in DOMAIN last.trace : last.trace[i].step = "resume"

\* C13: on the synchronous dispatcher under list_merge, an emit for one type
\* whose callbacks all return mappings returns, and for every key returned
\* the result holds the list of the values returned for it, in invocation
\* order; a single value gives a one-element list.
C13_SyncListMerge ==
    (/\ last.op = "emit"
     /\ last.engine = "sync"
     /\ last.affair.merge_strategy = "list_merge"
     /\ ~last.affair.emit_up
     /\ \A i \in DOMAIN last.trace : last.trace[i].ret.kind = "dict") =>
        /\ last.outcome = "ok"
        /\ \A key \in Range(KeyOrder) :
              LET vs == ValuesFor(last.trace, key)
              IN  vs # <<>> =>
                      /\ key \in DOMAIN last.result
                      /\ last.result[key].t = "list"
                      /\ last.result[key].v = vs

\* the disjoint-key scenario: an emit for the Child type alone in which the
\* callbacks a and b, neither registered after the other, were each invoked
\* once and returned {"a": ..} and {"b": ..}
DisjointScenario ==
    /\ last.op = "emit"
    /\ ~last.affair.emit_up
    /\ ~After(graphs, "Child", "a", "b")
    /\ ~After(graphs, "Child", "b", "a")
    /\ Len(last.trace) = 2
    /\ \E i, j \in DOMAIN last.trace :
          /\ last.trace[i].cb = "a"
          /\ last.trace[i].ret = Invoke("own", "a", 1)
          /\ last.trace[j].cb = "b"
          /\ last.trace[j].ret = Invoke("own", "b", 1)

Ended(trace, cb) ==
    SelectSeq(trace, LAMBDA e : e.cb = cb /\ e.depth = 0 /\ e.ret.kind # "await")

\* the first invocation of the callback in the emission raised
FirstRaised(trace, cb) ==
    Ended(trace, cb) # <<>> /\ Ended(trace, cb)[1].ret.kind = "raise"

\* the error-policy mapping the handler of the emission returned; the empty
\* mapping when no handler ran or it returned None
PolicyOf(trace) ==
    LET rets == SelectSeq(trace, LAMBDA e : e.depth = 1 /\ e.ret.kind = "dict")
    IN  IF rets = <<>> THEN << >> ELSE rets[1].ret.map

\* the result holds the value under the key: as it is, in the list or in the
\* mapping the strategy makes of the values
Holds(result, key, value) ==
    /\ key \in DOMAIN result
    /\ \/ result[key].t = "str" /\ result[key].v = value.v
       \/ result[key].t = "list" /\ value \in Range(result[key].v)
       \/ result[key].t = "dict" /\ \E name \in DOMAIN result[key].v :
                                       result[key].v[name] = value

\* C15: when the first invocation of a callback raises and the policy's
\* retry is n, the callback is invoked at most 1 + max(0, n) times in the
\* emission and never again after an invocation that returned; when the
\* emission returns and n >= 1 the callback was invoked again, and a mapping a
\* retry returned is in the result.
C15_RetryProtocol ==
    last.op = "emit" =>
        \A cb \in Workers :
            LET p == read_error_policy(PolicyOf(last.trace))
                ended == Ended(last.trace, cb)
                calls == Calls(last.trace, cb)
            IN  (FirstRaised(last.trace, cb) /\ p.ok) =>
                    /\ calls <= 1 + (IF p.retry > 0 THEN p.retry ELSE 0)
                    /\ \A i \in DOMAIN ended :
                          ended[i].ret.kind # "raise" => i = Len(ended)
                    /\ (last.outcome = "ok" /\ p.retry >= 1) => calls >= 2
                    /\ \A i \in DOMAIN ended :
                          (last.outcome = "ok" /\ ended[i].ret.kind = "dict") =>
                              \A key \in DOMAIN ended[i].ret.map :
                                  Holds(last.result, key, ended[i].ret.map[key])

\* the retry scenario: a callback failed once, the policy said retry 2, the
\* callback was invoked exactly twice and its mapping is the result
C15_Witness ==
    /\ last.op = "emit"
    /\ last.outcome = "ok"
    /\ read_error_policy(PolicyOf(last.trace)).retry = 2
    /\ \E cb \in Workers :
          /\ FirstRaised(last.trace, cb)
          /\ Calls(last.trace, cb) = 2
          /\ Len(Ended(last.trace, cb)) = 2
          /\ Ended(last.trace, cb)[2].ret.kind = "dict"
          /\ DOMAIN last.result = DOMAIN Ended(last.trace, cb)[2].ret.map

\* the policy mapping asks to swallow the failure: deadletter or silent is
\* true in it
Swallows(policy) ==
    \E flag \in {"deadletter", "silent"} :
        flag \in DOMAIN policy /\ Truthy(policy[flag])

\* every invocation of the callback in the emission raised
NeverReturned(trace, cb) ==
    \A i \in DOMAIN Ended(trace, cb) : Ended(trace, cb)[i].ret.kind = "raise"

\* C16: when a callback fails and none of the retries the policy allows
\* succeeds, a policy with deadletter or silent true swallows the failure
\* (no exception of the callback leaves emit); otherwise, also without any
\* handler, emit raises the exception of the callback's first invocation:
\* itself on the synchronous dispatcher, and in the compound error on the
\* concurrent one unless a failing sibling ended the layer first.
C16_RecoveryPriority ==
    last.op = "emit" =>
        \A cb \in Workers :
            LET policy == PolicyOf(last.trace)
                first == [error |-> "CallbackError", cb |-> cb, n |-> 1]
                of_cb == {i \in DOMAIN last.errors : last.errors[i].cb = cb}
            IN  (/\ FirstRaised(last.trace, cb)
                 /\ NeverReturned(last.trace, cb)
                 /\ read_error_policy(policy).ok) =>
                    IF Swallows(policy)
                    THEN of_cb = {}
                    ELSE /\ \A i \in of_cb : last.errors[i] = first
                         /\ last.engine = "sync" =>
                               /\ last.outcome = "CallbackError"
                               /\ last.errors = <<first>>
                         /\ last.engine = "async" =>
                               /\ last.outcome = "ExceptionGroup"
                               /\ of_cb = {} =>
                                     \E i \in DOMAIN last.errors :
                                         last.errors[i].cb # cb

\* a callback failed, the policy said retry 1 and silent, the retry failed
\* too, and the emit returned with what the other callback returned
C16_Witness ==
    /\ last.op = "emit"
    /\ last.outcome = "ok"
    /\ DOMAIN PolicyOf(last.trace) = {"retry", "silent"}
    /\ \E cb \in Workers :
          /\ FirstRaised(last.trace, cb)
          /\ NeverReturned(last.trace, cb)
          /\ Calls(last.trace, cb) = 2
          /\ cb \notin DOMAIN last.result
    /\ last.result # << >>

\* C17: whatever the merge strategy of the affair dispatched, the handlers'
\* policy is read as the handlers returned it, as an emission under raise
\* gives it: a policy that can be read never makes the emit fail with an
\* error of the policy, a retry in it is obeyed, and deadletter or silent in
\* it swallows the failure, under list_merge and dict_merge too.
C17_ErrorAffairUnderRaise ==
    (last.op = "emit" /\ last.affair.merge_strategy # "raise") =>
        \A cb \in Workers :
            LET policy == PolicyOf(last.trace)
                p == read_error_policy(policy)
            IN  (FirstRaised(last.trace, cb) /\ p.ok) =>
                    /\ last.outcome # "TypeError"
                    /\ \A i \in DOMAIN last.errors :
                           last.errors[i].error = "CallbackError"
                    /\ Swallows(policy) =>
                           \A i \in DOMAIN last.errors : last.errors[i].cb # cb
                    /\ (last.outcome = "ok" /\ p.retry >= 1) =>
                           Calls(last.trace, cb) >= 2

\* an affair with dict_merge was awaited, a callback raised, the handler
\* returned silent alone, and the emit returned
C17_Witness ==
    /\ last.op = "emit"
    /\ last.engine = "async"
    /\ last.affair.merge_strategy = "dict_merge"
    /\ last.outcome = "ok"
    /\ DOMAIN PolicyOf(last.trace) = {"silent"}
    /\ \E cb \in Workers : FirstRaised(last.trace, cb)

\* the retry of the policy is a string int() rejects
NonCoercible(policy) ==
    /\ "retry" \in DOMAIN policy
    /\ policy["retry"].t = "str"
    /\ policy["retry"].v # "2"

\* C18: when the handlers' policy holds a retry that cannot be converted to
\* an integer, the emit fails with a type error (the synchronous dispatcher
\* raises it, the concurrent one holds it in its compound error unless a
\* sibling ended the layer first), the failed callback is not invoked again,
\* and deadletter or silent in the same policy do not swallow anything.
C18_BadRetryIsTypeError ==
    last.op = "emit" =>
        \A cb \in Workers :
            LET policy == PolicyOf(last.trace)
                of_cb == {i \in DOMAIN last.errors : last.errors[i].cb = cb}
                type_error == [error |-> "TypeError", cb |-> cb, n |-> 0]
            IN  (FirstRaised(last.trace, cb) /\ NonCoercible(policy)) =>
                    /\ Calls(last.trace, cb) = 1
                    /\ last.outcome # "ok"
                    /\ last.engine = "sync" => last.outcome = "TypeError"
                    /\ last.engine = "async" =>
                          /\ last.outcome = "ExceptionGroup"
                          /\ \A i \in of_cb : last.errors[i] = type_error
                          /\ of_cb = {} =>
                                \E i \in DOMAIN last.errors :
                                    last.errors[i].cb # cb

\* a callback raised, the handler returned a retry that is not a number
\* together with silent, and the awaited emit failed with the type error
C18_Witness ==
    /\ last.op = "emit"
    /\ last.engine = "async"
    /\ NonCoercible(PolicyOf(last.trace))
    /\ Swallows(PolicyOf(last.trace))
    /\ \E cb \in Workers :
          /\ FirstRaised(last.trace, cb)
          /\ \E i \in DOMAIN last.errors :
                last.errors[i] = [error |-> "TypeError", cb |-> cb, n |-> 0]

\* the same on the synchronous dispatcher
C18_WitnessSync ==
    /\ last.op = "emit"
    /\ last.engine = "sync"
    /\ last.outcome = "TypeError"
    /\ NonCoercible(PolicyOf(last.trace))
    /\ Swallows(PolicyOf(last.trace))

\* the steps of the callbacks of the affair dispatched, in the order taken
OwnSteps(trace) == SelectSeq(trace, LAMBDA e : e.depth = 0)

\* no step of a callback follows a step of a callback of a later layer
LayerOrdered(gs, affair, trace) ==
    LET steps == OwnSteps(trace)
        pos(i) == LayerPos(gs, affair, steps[i].type, steps[i].cb)
    IN  \A i, j \in DOMAIN steps : i < j => pos(i) <= pos(j)

\* the task has returned, has raised for good, or was cancelled: it is not
\* waiting for its callback, for the handlers of its error or for a retry
Terminal(task) == task.st \notin {"new", "await", "handling", "retrying"}

\* the awaited emit leaves the layer it is in: for the next one or for good
LeavesLayer ==
    /\ run.phase = "layer"
    /\ run'.phase = "layer" => run'.layers # run.layers

\* C19: the concurrent dispatcher leaves a layer only when every task of the
\* layer is over, the dispatch of its error to the handlers and its retries
\* included, and no step of a callback, first call, continuation or retry,
\* is ever taken after a callback of a later layer has started.
C19_LayerBarrier ==
    /\ [][LeavesLayer => \A i \in DOMAIN run.tasks : Terminal(run.tasks[i])]_vars
    /\ [](run.phase = "layer" => LayerOrdered(graphs, run.affair, run.trace))
    /\ []((last.op = "emit" /\ last.engine = "async") =>
              LayerOrdered(graphs, last.affair, last.trace))

\* an awaited emit returned after a callback of the first layer raised, its
\* error went to the handler, the callback was retried, and only then the
\* callback of the second layer was called
C19_Witness ==
    /\ last.op = "emit"
    /\ last.engine = "async"
    /\ \E early, late \in Workers :
          /\ \E i, j, k, l \in DOMAIN last.trace :
                /\ i < j /\ j < k /\ k < l
                /\ last.trace[i].cb = early /\ last.trace[i].ret.kind = "raise"
                /\ last.trace[j].depth = 1
                /\ last.trace[k].cb = early /\ last.trace[k].depth = 0
                /\ last.trace[l].cb = late
          /\ LayerPos(graphs, last.affair, "Child", early)
                 < LayerPos(graphs, last.affair, "Child", late)

\* C20: on the concurrent dispatcher no task of a layer is ever cancelled
\* because a callback of the layer raised, handled or not: every task of the
\* layer ends by its own return or its own exception.
C20_SiblingIsolation ==
    run.phase = "layer" =>
        \A i \in DOMAIN run.tasks : run.tasks[i].st # "cancelled"

\* the policy the handlers registered give for a failure of the callback in
\* the emission under way: the handler's mapping, or the empty one
PolicyFor(cb) ==
    LET ret == Invoke(run.beh[Handler], Handler, 1)
    IN  IF Handlers(CallbackErrorAffair(run.affair, cb, Exception(<<>>, cb))) = <<>>
           \/ ret.kind # "dict"
        THEN << >> ELSE ret.map

\* left to itself the callback fails in the emission under way and nothing
\* recovers it: it raises, the policy can be read and does not swallow, and
\* no retry it allows succeeds
FailsUnrecovered(cb) ==
    LET policy == PolicyFor(cb)
    IN  /\ ~NonCoercible(policy)
        /\ ~Swallows(policy)
        /\ \/ run.beh[cb] = "raise"
           \/ /\ run.beh[cb] \in {"flaky", "await_flaky"}
              /\ read_error_policy(policy).retry <= 0

\* the tasks of the layer under way whose callbacks fail unrecovered
Failing == {i \in DOMAIN run.tasks : FailsUnrecovered(run.tasks[i].cb)}

\* C21: on the concurrent dispatcher, when two or more callbacks of a layer
\* fail unrecovered, then once every task of the layer is over the errors
\* the TaskGroup raises together hold the exception each of them raised,
\* however the tasks interleave.
C21_AllFailuresAggregated ==
    (/\ run.phase = "layer"
     /\ \A i \in DOMAIN run.tasks : Terminal(run.tasks[i])
     /\ \E i, j \in Failing : i # j) =>
        \A i \in Failing :
            \E e \in DOMAIN run.errors :
                run.errors[e] = [error |-> "CallbackError",
                                 cb |-> run.tasks[i].cb, n |-> 1]

\* C22: on the concurrent dispatcher, when a single callback of a layer fails
\* unrecovered, what emit raises is that callback's exception itself, not a
\* compound error around it.
C22_LoneFailureUnwrapped ==
    (/\ last.op = "emit"
     /\ last.engine = "async"
     /\ Len(last.errors) = 1
     /\ last.errors[1].error = "CallbackError") =>
        last.outcome = "CallbackError"

\* the result holds, for every key, what the callbacks of the emission
\* returned for it and nothing else
MergeOfReturned(result, trace) ==
    \A key \in Range(KeyOrder) :
        LET vs == ValuesFor(trace, key)
        IN  /\ key \in DOMAIN result <=> vs # <<>>
            /\ \A i \in DOMAIN vs : Holds(result, key, vs[i])

\* C23: when a callback fails and deadletter or silent swallows the failure,
\* emit returns, every other callback exec_order yields for the type was
\* invoked, whatever its layer and whenever it was registered, and the mapping
\* returned holds exactly what the other callbacks returned.
C23_SwallowedFailureIsLocal ==
    last.op = "emit" =>
        \A cb \in Workers :
            LET policy == PolicyOf(last.trace)
            IN  (/\ FirstRaised(last.trace, cb)
                 /\ NeverReturned(last.trace, cb)
                 /\ Swallows(policy)
                 /\ ~NonCoercible(policy)) =>
                    /\ last.outcome = "ok"
                    /\ \A other \in Ordered(graphs, "Child") \ {cb} :
                           InvokedAt(last.trace, other, "Child") # {}
                    /\ cb \notin DOMAIN last.result
                    /\ MergeOfReturned(last.result, last.trace)

\* a callback failed and was swallowed, and a callback of a later layer was
\* invoked after it and its mapping returned, on the synchronous dispatcher
C23_Witness ==
    /\ last.op = "emit"
    /\ last.engine = "sync"
    /\ last.outcome = "ok"
    /\ Swallows(PolicyOf(last.trace))
    /\ \E cb, other \in Workers :
          /\ FirstRaised(last.trace, cb)
          /\ NeverReturned(last.trace, cb)
          /\ other \in DOMAIN last.result
          /\ After(graphs, "Child", cb, other)

\* the same on the concurrent dispatcher, both callbacks in one layer
C23_WitnessAsync ==
    /\ last.op = "emit"
    /\ last.engine = "async"
    /\ last.outcome = "ok"
    /\ Swallows(PolicyOf(last.trace))
    /\ \E cb, other \in Workers :
          /\ FirstRaised(last.trace, cb)
          /\ NeverReturned(last.trace, cb)
          /\ other \in DOMAIN last.result
          /\ ~After(graphs, "Child", cb, other)

\* the step returned a mapping with a key an earlier step of the emission
\* returned as well
Conflicts(steps, i) ==
    /\ steps[i].ret.kind = "dict"
    /\ \E j \in 1..(i - 1) :
          /\ steps[j].ret.kind = "dict"
          /\ DOMAIN steps[j].ret.map \cap DOMAIN steps[i].ret.map # {}

\* the step is where an emission with this outcome and these errors can have
\* failed: an exception raised (by a callback whose error is raised, when
\* errors are), a return that is no mapping, a key returned before
FailsAt(outcome, errors, steps, i) ==
    CASE outcome \in {"CallbackError", "ExceptionGroup"} ->
             /\ steps[i].ret.kind = "raise"
             /\ \E e \in DOMAIN errors : errors[e].cb = steps[i].cb
      [] outcome = "TypeError" -> steps[i].ret.kind \in {"other", "raise"}
      [] outcome = "KeyConflictError" -> Conflicts(steps, i)
      [] OTHER -> FALSE

\* C24: when emit fails, no mapping is returned, and nothing is invoked past
\* the failing point: on the synchronous dispatcher the last step taken is
\* the one that failed, and on the concurrent one the last layer entered
\* holds a step that failed, so that no callback of a later layer or of a
\* later ancestor type has been invoked.
C24_FailureIsFinal ==
    (last.op = "emit" /\ last.outcome # "ok") =>
        LET steps == OwnSteps(last.trace)
            pos(i) == LayerPos(graphs, last.affair, steps[i].type, steps[i].cb)
        IN  /\ last.result = << >>
            /\ steps # <<>>
            /\ last.engine = "sync" =>
                  FailsAt(last.outcome, last.errors, steps, Len(steps))
            /\ \E i \in DOMAIN steps :
                  /\ FailsAt(last.outcome, last.errors, steps, i)
                  /\ \A j \in DOMAIN steps : pos(j) <= pos(i)

\* an emit failed in a layer after which the schedule holds another layer
\* with a callback, of the same type or of the ancestor type
C24_Witness ==
    /\ last.op = "emit"
    /\ last.outcome # "ok"
    /\ LET sched == LayerSchedule(graphs, resolve_affair_types(last.affair))
           steps == OwnSteps(last.trace)
       IN  /\ steps # <<>>
           /\ \E p \in DOMAIN sched :
                 /\ sched[p].layer # <<>>
                 /\ \A j \in DOMAIN steps :
                       LayerPos(graphs, last.affair, steps[j].type, steps[j].cb) < p

\* the places of the trace where a callback of the emission itself handed
\* back something that is neither a mapping nor None
NonMappings(trace) ==
    {i \in DOMAIN trace : trace[i].depth = 0 /\ trace[i].ret.kind = "other"}

\* the places of the trace where a CallbackErrorAffair is emitted
ErrorEmits(trace) == {i \in DOMAIN trace : trace[i].step = "emit"}

Acyclic(g) ==
    \A S \in SUBSET g.nodes :
        S # {} => \E n \in S : Range(g.succ[n]) \cap S = {}

\* C26: after any sequence of add and remove calls, accepted or rejected,
\* the graph of every type is acyclic.
C26_AlwaysAcyclic == \A t \in DOMAIN graphs : Acyclic(graphs[t])

\* an add was rejected for the cycle it would close, after a callback had
\* been registered behind another one
C26_Witness ==
    /\ last.op = "register"
    /\ last.outcome = "CyclicDependencyError"
    /\ last.after # {last.callback}
    /\ \E t \in DOMAIN graphs : \E n \in Callbacks : graphs[t].succ[n] # <<>>

\* C27: merging the empty mapping into a target leaves the target as it was
\* and raises nothing, under every strategy, whatever the target holds and
\* whatever source name is given.
C27_EmptySourceIsNeutral ==
    (last.op = "merge_dict" /\ last.source = << >>) =>
        /\ last.result.ok
        /\ DOMAIN last.result.target = DOMAIN last.target
        /\ \A key \in DOMAIN last.target :
              /\ last.result.target[key].t = last.target[key].t
              /\ last.result.target[key].v = last.target[key].v

\* the empty mapping was merged under list_merge into a target that holds a
\* plain value and a target built under dict_merge
C27_Witness ==
    /\ last.op = "merge_dict"
    /\ last.source = << >>
    /\ last.strategy = "list_merge"
    /\ last.result.ok
    /\ \E key \in DOMAIN last.target : last.target[key].t = "dict"

\* C28: once unregister() has been called on an AffairAware instance (or its
\* with block was left), an emit invokes none of the instance's callbacks and
\* invokes every other callback that exec_order yielded before the call, and
\* further calls of unregister() have left the registry as the first one did.
C28_ScopedTeardown ==
    (last.op = "emit" /\ aware.state = "unregistered") =>
        /\ graphs = aware.first
        /\ \A t \in Range(resolve_affair_types(last.affair)) :
              /\ InvokedAt(last.trace, Method, t) = {}
              /\ \A cb \in Ordered(aware.before, t) \ {Method} :
                     InvokedAt(last.trace, cb, t) # {}

\* C29: two callbacks that exec_order yields for a type are in the same
\* layer exactly when neither is reachable from the other along the edges
\* the after lists made.
C29_SameLayerIffIndependent ==
    \A t \in DOMAIN graphs :
        \A x, y \in Ordered(graphs, t) :
            x # y =>
                (LayerIndex(graphs, t, x) = LayerIndex(graphs, t, y)
                    <=> (/\ y \notin Descendants(graphs[t], x)
                         /\ x \notin Descendants(graphs[t], y)))

\* the places of the trace where the callback, invoked for the type by the
\* emission itself, returned or raised
EndedAt(trace, cb, t) ==
    {i \in DOMAIN trace : /\ trace[i].cb = cb
                          /\ trace[i].type = t
                          /\ trace[i].depth = 0
                          /\ trace[i].ret.kind # "await"}

\* the places of the trace where a CallbackErrorAffair is emitted for the
\* callback invoked for the type
ErrorEmitsFor(trace, cb, t) ==
    {i \in ErrorEmits(trace) : trace[i].cb = cb /\ trace[i].type = t}

\* the least element of a non-empty set of numbers
Least(S) == CHOOSE i \in S : \A j \in S : i <= j

\* C30: for every callback and type of an emission, a CallbackErrorAffair is
\* emitted for the callback exactly when its first invocation for the type
\* raised: once, right after that invocation and before any retry, none for
\* a retry that raises, and with the callback's name, the type of the affair
\* dispatched (not of the ancestor type walked), and the message and the
\* type name of the exception that invocation raised.
C30_OneErrorAffairPerFailure ==
    last.op = "emit" =>
        \A cb \in Workers, t \in Types :
            LET ended == EndedAt(last.trace, cb, t)
                emits == ErrorEmitsFor(last.trace, cb, t)
                first == Least(ended)
                n == Calls(SubSeq(last.trace, 1, first), cb)
            IN  IF ended # {} /\ last.trace[first].ret.kind = "raise"
                THEN /\ emits = {first + 1}
                     /\ LET ea == last.trace[first + 1].ret.affair
                        IN  /\ ea.type = ErrorAffair
                            /\ ea.listener_name = cb
                            /\ ea.original_affair_type = last.affair.type
                            /\ ea.error_message = <<cb, n>>
                            /\ ea.error_type = "CallbackError"
                ELSE emits = {}

\* an affair of the child type was dispatched with emit_up, a callback
\* invoked for the ancestor type raised, the event was emitted, and the
\* retry the handler asked for raised as well
C30_Witness ==
    /\ last.op = "emit"
    /\ last.affair.type = "Child"
    /\ \E cb \in Workers :
          /\ ErrorEmitsFor(last.trace, cb, "Parent") # {}
          /\ \E i \in EndedAt(last.trace, cb, "Parent") :
                /\ i > Least(ErrorEmitsFor(last.trace, cb, "Parent"))
                /\ last.trace[i].ret.kind = "raise"

\* C31: under dict_merge no contribution is lost: when N invocations of an
\* emission on the concurrent dispatcher each return a value for a key, the
\* result's entry for the key is a mapping with N entries, one for each
\* contributing invocation (also when one callback is invoked for the child
\* and for the ancestor type under emit_up).
C31_DictMergeKeepsAll ==
    (/\ last.op = "emit"
     /\ last.engine = "async"
     /\ last.affair.merge_strategy = "dict_merge"
     /\ last.outcome = "ok") =>
        \A key \in Range(KeyOrder) :
            LET vs == ValuesFor(last.trace, key)
            IN  Len(vs) >= 1 =>
                    /\ key \in DOMAIN last.result
                    /\ last.result[key].t = "dict"
                    /\ Cardinality(DOMAIN last.result[key].v) = Len(vs)

\* C32: on the concurrent dispatcher the merge follows the order in which
\* the callbacks completed: under list_merge the list of a key holds the
\* values in the order their callbacks returned them, under keep the key
\* holds the value returned first and under override the value returned
\* last.
C32_MergeInCompletionOrder ==
    (/\ last.op = "emit"
     /\ last.engine = "async"
     /\ last.outcome = "ok"
     /\ last.affair.merge_strategy \in {"list_merge", "keep", "override"}) =>
        \A key \in Range(KeyOrder) :
            LET vs == ValuesFor(last.trace, key)
            IN  Len(vs) >= 1 =>
                    /\ key \in DOMAIN last.result
                    /\ last.affair.merge_strategy = "list_merge" =>
                          /\ last.result[key].t = "list"
                          /\ last.result[key].v = vs
                    /\ last.affair.merge_strategy = "keep" =>
                          last.result[key] = vs[1]
                    /\ last.affair.merge_strategy = "override" =>
                          last.result[key] = vs[Len(vs)]

\* the values the callbacks of the emission returned for the key, in the
\* order in which emit's loops over types, layers and callbacks reach the
\* callbacks (for callbacks registered without after: registration order)
ScheduleValues(gs, affair, trace, key) ==
    LET sched == Schedule(gs, resolve_affair_types(affair))
        rets(p) == {i \in DOMAIN trace :
                       /\ trace[i].depth = 0
                       /\ trace[i].type = p[1]
                       /\ trace[i].cb = p[2]
                       /\ trace[i].ret.kind = "dict"
                       /\ key \in DOMAIN trace[i].ret.map}
        picks == SelectSeq(sched, LAMBDA p : rets(p) # {})
    IN  [n \in DOMAIN picks |-> trace[CHOOSE i \in rets(picks[n]) : TRUE].ret.map[key]]

\* C33: on the concurrent dispatcher under list_merge the result does not
\* depend on how the tasks interleave: for every key the callbacks of the
\* emission returned, the result holds the list of the values in the order
\* of the registry (registration order for the callbacks of one layer), and
\* it holds no other key; two runs with the same registry and the same
\* returns give equal mappings.
C33_ListMergeDeterministic ==
    (/\ last.op = "emit"
     /\ last.engine = "async"
     /\ last.outcome = "ok"
     /\ last.affair.merge_strategy = "list_merge") =>
        \A key \in Range(KeyOrder) :
            LET vs == ScheduleValues(graphs, last.affair, last.trace, key)
            IN  IF vs = <<>> THEN key \notin DOMAIN last.result
                ELSE /\ key \in DOMAIN last.result
                     /\ last.result[key].t = "list"
                     /\ last.result[key].v = vs

\* a list_merge emission on the concurrent dispatcher whose callbacks of one
\* layer completed in another order than their registration order, and whose
\* result lists the values in registration order
C33_Witness ==
    /\ last.op = "emit"
    /\ last.engine = "async"
    /\ last.outcome = "ok"
    /\ last.affair.merge_strategy = "list_merge"
    /\ "k" \in DOMAIN last.result
    /\ Len(last.result["k"].v) = 2
    /\ last.result["k"].v = ScheduleValues(graphs, last.affair, last.trace, "k")
    /\ last.result["k"].v # ValuesFor(last.trace, "k")
    /\ exec_order(graphs, last.affair.type) = <<<<"a", "b">>>>

\* C34: reads do not write: exec_order and emit (with callbacks that call
\* neither register nor unregister) leave the registry as it was, and
\* create no graph for a type that has none; exec_order of a type without a
\* graph returns the empty sequence, and an emit none of whose types has a
\* graph invokes nothing and returns the empty mapping.
C34_ReadsDoNotWrite ==
    /\ last.op = "exec_order" =>
          /\ graphs = last.before
          /\ last.type \notin DOMAIN last.before =>
                /\ last.layers = <<>>
                /\ last.type \notin DOMAIN graphs
    /\ (last.op = "emit" /\ "before" \in DOMAIN last) =>
          /\ graphs = last.before
          /\ Range(resolve_affair_types(last.affair)) \cap DOMAIN last.before = {} =>
                /\ last.outcome = "ok"
                /\ last.result = << >>
                /\ last.trace = <<>>
                /\ Range(resolve_affair_types(last.affair)) \cap DOMAIN graphs = {}

\* exec_order was called for a type without a graph while another type has
\* callbacks, and returned the empty sequence
C34_Witness ==
    /\ last.op = "exec_order"
    /\ last.type \notin DOMAIN last.before
    /\ DOMAIN last.before # {}
    /\ last.layers = <<>>

\* an emit of an affair whose type has no graph, on a registry that holds
\* callbacks for another type, returned the empty mapping
C34_WitnessEmit ==
    /\ last.op = "emit"
    /\ "before" \in DOMAIN last
    /\ ~last.affair.emit_up
    /\ "Child" \notin DOMAIN last.before
    /\ Registered(last.before, "Parent") # {}
    /\ last.outcome = "ok"
    /\ last.result = << >>

\* how often the sequence holds the element
Occurrences(s, x) == Cardinality({i \in DOMAIN s : s[i] = x})

\* C35: registering a callback again, without after, on a type where it is
\* already registered succeeds and adds no node: the type has the same
\* callbacks as before, exec_order yields the callback exactly once, an emit
\* of the type invokes it exactly once, and when the callback already
\* followed the guardian directly the graph of the type is left as it was.
C35_ReRegisterNoDuplicate ==
    (/\ last.op = "register"
     /\ last.after = {}
     /\ \E t \in Range(last.types) : last.callback \in Registered(last.before, t)) =>
        /\ last.outcome = "ok"
        /\ \A t \in Range(last.types) :
              last.callback \in Registered(last.before, t) =>
                  /\ Registered(graphs, t) = Registered(last.before, t)
                  /\ Occurrences(Flat(exec_order(graphs, t)), last.callback) = 1
                  /\ Calls(emit(graphs, whens, [cb \in Callbacks |-> "none"],
                                [type |-> t, emit_up |-> FALSE,
                                 merge_strategy |-> "raise", msg |-> "go"],
                                <<>>, 0).trace, last.callback) = 1
                  /\ last.callback \in Range(last.before[t].succ[Guardian]) =>
                        graphs[t] = last.before[t]

\* a callback that followed the guardian directly and had a dependent was
\* registered again without after
C35_Witness ==
    /\ last.op = "register"
    /\ last.after = {}
    /\ last.outcome = "ok"
    /\ \E t \in Range(last.types) :
          /\ last.callback \in Registered(last.before, t)
          /\ last.callback \in Range(last.before[t].succ[Guardian])
          /\ last.before[t].succ[last.callback] # <<>>
          /\ Occurrences(Flat(exec_order(graphs, t)), last.callback) = 1

\* C36: when the caller cancels a concurrent emit, every task of the active
\* layer that was still running ends cancelled, no callback of a later layer
\* is started, and the cancellation is not taken for a failure of a
\* callback: nothing is invoked and no CallbackErrorAffair is emitted
\* because of it, and emit ends with the cancellation (or with the failures
\* the layer already held), never with a result.
C36_CallerCancellation ==
    (last.op = "emit" /\ "tasks_before" \in DOMAIN last) =>
        /\ \A i \in DOMAIN last.tasks :
              IF Finished(last.tasks_before[i])
              THEN last.tasks[i] = last.tasks_before[i]
              ELSE last.tasks[i].st = "cancelled"
        /\ \A p \in DOMAIN last.pending :
              \A cb \in Range(last.pending[p].layer) :
                  ~\E i \in DOMAIN last.trace :
                       /\ last.trace[i].depth = 0
                       /\ last.trace[i].cb = cb
                       /\ last.trace[i].type = last.pending[p].type
        /\ last.trace = last.trace_before
        /\ \A i \in DOMAIN last.trace :
              last.trace[i].step = "emit" =>
                  /\ last.trace[i].ret.affair.error_type # "CancelledError"
                  /\ \E j \in 1..(i - 1) :
                        /\ last.trace[j].cb = last.trace[i].cb
                        /\ last.trace[j].ret.kind = "raise"
        /\ last.errors = <<>> => last.outcome = "CancelledError"
        /\ last.errors # <<>> => last.outcome = "ExceptionGroup"
        /\ \A i \in DOMAIN last.errors : last.errors[i].error # "CancelledError"
        /\ last.result = << >>

\* the caller cancelled an emit while the callback of the first layer was at
\* its await and a later layer had not been entered
C36_Witness ==
    /\ last.op = "emit"
    /\ "tasks_before" \in DOMAIN last
    /\ last.outcome = "CancelledError"
    /\ last.pending # <<>>
    /\ \E i \in DOMAIN last.tasks :
          last.tasks_before[i].st = "await" /\ last.tasks[i].st = "cancelled"

\* the caller cancelled an emit while a callback was in the retry that
\* followed its failure
C36_WitnessRetry ==
    /\ last.op = "emit"
    /\ "tasks_before" \in DOMAIN last
    /\ \E i \in DOMAIN last.tasks :
          last.tasks_before[i].st = "retrying" /\ last.tasks[i].st = "cancelled"

\* C37: two emissions that run at the same time on one concurrent
\* dispatcher (side by side, or one started and finished while a layer of
\* the other is under way, as an emit made by a callback is) accumulate in
\* mappings of their own: with callbacks that are pure functions of the
\* event, each returns or raises what its emit returns or raises when it
\* runs alone.
C37_EmissionIsolation ==
    last.op = "emits" =>
        \A e \in DOMAIN last.ems :
            LET em == last.ems[e]
                alone == RunAlone(whens, last.beh, em.affair,
                                  LayerSchedule(graphs, resolve_affair_types(em.affair)),
                                  << >>)
            IN  /\ em.outcome = alone.outcome
                /\ em.outcome = "ok" => em.result = alone.result

\* two emissions under list_merge overlapped, each returned a list of two
\* values for the same key, and the lists differ
C37_Witness ==
    /\ last.op = "emits"
    /\ \A e \in DOMAIN last.ems :
          /\ last.ems[e].outcome = "ok"
          /\ last.ems[e].affair.merge_strategy = "list_merge"
          /\ "k" \in DOMAIN last.ems[e].result
          /\ Len(last.ems[e].result["k"].v) = 2
    /\ last.ems[1].result # last.ems[2].result
    /\ Len(exec_order(graphs, "Child")) = 2

\* C38: in every reachable state of the registry, every callback that is a
\* node of the graph of a type is reachable from the guardian: exec_order
\* of the type yields it in exactly one layer, so an emit invokes it.
C38_EveryCallbackReachable ==
    \A t \in DOMAIN graphs :
        \A cb \in Registered(graphs, t) :
            Occurrences(Flat(exec_order(graphs, t)), cb) = 1

\* C39: with callbacks that never call emit and finite retry values, every
\* emit ends by returning or by raising the error of a callback, also when
\* the handler of the CallbackErrorAffair raises whenever it is invoked,
\* and the emits of CallbackErrorAffairs are nested to a bounded depth: no
\* emit ends because the interpreter's stack is exhausted.
C39_RecoveryTerminates ==
    last.op = "emit" =>
        /\ last.outcome \in {"ok", "CallbackError", "KeyConflictError", "TypeError"}
        /\ \A i \in DOMAIN last.trace : last.trace[i].depth <= MaxDepth

\* the callbacks the emission invoked for the type, in order
InvokedFor(trace, t) ==
    LET es == SelectSeq(trace, LAMBDA e : e.type = t /\ e.depth = 0 /\ e.step = "call")
    IN  [i \in DOMAIN es |-> es[i].cb]

\* C40: the layers of a type are fetched once, when the dispatch for the
\* type starts: the emission invokes for the type exactly the callbacks of
\* the layers fetched, in their order. A callback that another callback
\* registers on the type during the emission is not invoked for it in this
\* emission, and a callback of the fetched layers is invoked even when it
\* was unregistered from the type before its turn.
C40_LayerSnapshot ==
    (last.op = "emit" /\ "fetched" \in DOMAIN last) =>
        \A f \in DOMAIN last.fetched :
            LET t == last.fetched[f].type
                cbs == Flat(last.fetched[f].layers)
            IN  /\ InvokedFor(last.trace, t) = cbs
                /\ \A cb \in Registered(graphs, t) \ Range(cbs) :
                      Occurrences(InvokedFor(last.trace, t), cb) = 0
                /\ \A cb \in Range(cbs) \ Registered(graphs, t) :
                      Occurrences(InvokedFor(last.trace, t), cb) = 1

\* a, of the first layer, registered the late callback after itself and
\* unregistered b, of the second layer: the emission invoked a and b and not
\* the late callback, which the next exec_order yields
C40_Witness ==
    /\ last.op = "emit"
    /\ "fetched" \in DOMAIN last
    /\ ~last.affair.emit_up
    /\ last.fetched[1].layers = << <<"a">>, <<"b">> >>
    /\ InvokedFor(last.trace, "Child") = <<"a", "b">>
    /\ last.beh["a"] = "add_late_after"
    /\ last.beh["b"] = "remove_a"
    /\ Late \in Registered(graphs, "Child")
    /\ "a" \notin Registered(graphs, "Child")

\* a unregistered b, which was in the fetched layers and whose turn came
\* after a's, and b was invoked
C40_WitnessRemoved ==
    /\ last.op = "emit"
    /\ "fetched" \in DOMAIN last
    /\ last.beh["a"] = "remove_b"
    /\ InvokedFor(last.trace, "Child") = <<"a", "b">>
    /\ "b" \notin Registered(graphs, "Child")

\* a registered the late callback, and the emission did not invoke it while
\* the next exec_order yields it
C40_WitnessAdded ==
    /\ last.op = "emit"
    /\ "fetched" \in DOMAIN last
    /\ last.beh["a"] = "add_late_after"
    /\ InvokedFor(last.trace, "Child") = <<"a", "b">>
    /\ Late \in Ordered(graphs, "Child")

====
